---- MODULE Spec2Model ----
(***************************************************************************)
(* A model of the Telegram bridge: the agent-side adapter (hook.py), the   *)
(* broker daemon (bridge.py), the registry file state.json with its        *)
(* advisory lock, and the per-session mailbox directories under ipc/.      *)
(*                                                                         *)
(* Time is a global clock `now`, counted in polling intervals.  Values     *)
(* that are None in the program are 0 (thread ids, pids), -1 (heartbeat)   *)
(* or "" (strings); Python treats 0, "" and None alike in the `if x:`      *)
(* tests the program applies to them.                                      *)
(***************************************************************************)
EXTENDS Integers, Sequences, FiniteSets, TLC

\* ------------------------------------------------------------------ bounds
\* config.get("max_slots", 4), scaled down
max_slots == 2
\* the clock stops at MaxTime
MaxTime == 7
\* event ids (uuid4 prefixes) are drawn fresh from 1..MaxIds
MaxIds == 4
\* forum topics the platform hands out: thread ids 1..MaxThreads
MaxThreads == 2
\* the registry specification: commands run, chat updates handled, clock
RegCmds == 3
RegUpdates == 1
RegTime == 3
\* the stop specification: commands run, chat updates handled, stop calls, clock
StopCmds == 2
StopUpdates == 2
StopIds == 2
StopTime == 4
\* the permission specification: chat updates handled, clock
PermUpdates == 3
PermTime == 4
\* the trust protocol's budget of chat updates, and its clock
TrustUpdates == 5
TrustTime == 5
\* the staleness protocol's budget of chat updates, and its clock
StaleUpdates == 1
StaleTime == 7
\* the self-healing protocol's budget of adapter commands and faults, and its clock
HealCmds == 3
HealFaults == 2
HealTime == 3
\* heartbeat freshness threshold of is_slot_actually_active (60 s), in ticks
HeartbeatFresh == 2
\* HEARTBEAT_INTERVAL (30 s), in ticks
HeartbeatEvery == 2
\* the wait of do_deactivate for the processed marker (5 s), in ticks
DeactivateWait == 1

\* config.get("permission_batch_window_seconds", 2), in ticks
permission_batch_window_seconds == 1
\* config.get("permission_timeout", 300), in ticks
permission_timeout == 3
\* stale_warning_seconds (default 90 s), in ticks
stale_warning_seconds == 3
\* config.get("keep_alive_poll_seconds", 60), in ticks
keep_alive_poll_seconds == 2
\* config.get("session_trust_threshold", 3)
session_trust_threshold == 3
\* the 3600 seconds of an hour, in ticks
SecondsPerHour == 2
\* config.get("idle_ping_hours", 12)
idle_ping_hours == 2
idle_ping_seconds == idle_ping_hours * SecondsPerHour

Sessions == {"s1", "s2", "s3"}
DaemonPid == 1

\* ------------------------------------------------------------ registry file
\* a value for a missing state.json that holds a slot
HookDefaultStateWithSlot ==
    [slots |-> << [slot |-> 0, session_id |-> "", project |-> "", topic_name |-> "",
                   thread_id |-> 0] >>,
     daemon_pid |-> 0, daemon_heartbeat |-> -1]

\* load_state's value for a missing or unparseable state.json (hook.py)
HookDefaultState == [slots |-> <<>>, daemon_pid |-> 0, daemon_heartbeat |-> -1]

\* load_state's value for a missing state.json (bridge.py): no heartbeat key,
\* which state.get("daemon_heartbeat", 0) reads as 0
BridgeDefaultState == [slots |-> <<>>, daemon_pid |-> 0, daemon_heartbeat |-> 0]

NoStateFile == [exists |-> FALSE, slots |-> <<>>, daemon_pid |-> 0, daemon_heartbeat |-> -1]

hook_load_state(f) ==
    IF f.exists
    THEN [slots |-> f.slots, daemon_pid |-> f.daemon_pid, daemon_heartbeat |-> f.daemon_heartbeat]
    ELSE HookDefaultState

bridge_load_state(f) ==
    IF f.exists
    THEN [slots |-> f.slots, daemon_pid |-> f.daemon_pid, daemon_heartbeat |-> f.daemon_heartbeat]
    ELSE BridgeDefaultState

save_state(st) ==
    [exists |-> TRUE, slots |-> st.slots, daemon_pid |-> st.daemon_pid,
     daemon_heartbeat |-> st.daemon_heartbeat]

\* The slots dict is kept as the sequence of its entries in insertion order
\* (the order json and dict iteration preserve).
Min(S) == CHOOSE i \in S : \A j \in S : i <= j

\* index of the first slot entry carrying session_id sid, 0 when there is none
IndexOfSession(slots, sid) ==
    LET hits == {i \in 1..Len(slots) : slots[i].session_id = sid}
    IN  IF hits = {} THEN 0 ELSE Min(hits)

RemoveAt(seq, i) == SubSeq(seq, 1, i - 1) \o SubSeq(seq, i + 1, Len(seq))

SlotNums(slots) == {slots[i].slot : i \in 1..Len(slots)}

SessionIds(slots) == {slots[i].session_id : i \in 1..Len(slots)}

get_slot_for_session(st, sid) ==
    LET i == IndexOfSession(st.slots, sid)
    IN  IF i = 0 THEN 0 ELSE st.slots[i].slot

\* session_id -> slot of every slot, in slots order
get_active_sessions(st) == [i \in 1..Len(st.slots) |-> <<st.slots[i].session_id, st.slots[i].slot>>]

\* ---------------------------------------------------------------- mailboxes
Ids == 1..MaxIds

\* pending_events is keyed by event ids and by batch ids, both uuid4 prefixes;
\* the batch id made for a batch whose first event is e is MaxIds + e
PendingIds == 1..(2 * MaxIds)

\* qlog is history, not file content: the texts an instruction was put
\* together from, in the order they were written
NoResponse == [present |-> FALSE, decision |-> "", message |-> <<>>, has_instruction |-> FALSE,
               instruction |-> <<>>, qlog |-> <<>>]

NoQueued == [present |-> FALSE, instruction |-> <<>>, qlog |-> <<>>]

\* a mailbox directory ipc/<session_id>; NoDir is the absent directory.
\* accepted, delivered and killed_at are history: the words of the replies the
\* daemon has routed to this mailbox, those an adapter call has returned from
\* it, and the time the kill marker was written
NoDir == [exists |-> FALSE, meta |-> FALSE, kill |-> "", force_clear |-> FALSE,
          queued |-> NoQueued, responses |-> [i \in PendingIds |-> NoResponse],
          events |-> <<>>, processed |-> FALSE, bound |-> "",
          accepted |-> {}, delivered |-> {}, killed_at |-> 0]

NewDir == [NoDir EXCEPT !.exists = TRUE]

\* an event line. The timestamp is kept on permission requests, whose arrival
\* times the batching window is about; of the other events' timestamps
\* nothing is read but /ping's status line.
Event(id, type, slot, ts) ==
    [id |-> id, type |-> type, slot |-> slot,
     timestamp |-> IF type = "permission_request" THEN ts ELSE 0,
     stop_hook_active |-> FALSE, original_event_id |-> 0]

\* ------------------------------------------------------------------- daemon
NoPending == [present |-> FALSE, session_id |-> "", type |-> "", event_ids |-> <<>>,
              created_at |-> 0]

NoBatch == [present |-> FALSE, events |-> <<>>, timer_start |-> 0, slot |-> 0]

\* BridgeDaemon.__init__: the in-memory state of a freshly started daemon
NewDaemon ==
    [running |-> TRUE, pc |-> "top",
     event_positions |-> [s \in Sessions |-> 0],
     pending_events |-> [i \in PendingIds |-> NoPending],
     session_threads |-> [s \in Sessions |-> 0],
     last_idle_ping |-> [s \in Sessions |-> 0],
     permission_batch |-> [s \in Sessions |-> NoBatch],
     trusted_sessions |-> [s \in Sessions |-> FALSE],
     approval_counts |-> [s \in Sessions |-> 0],
     stale_warned |-> {},
     last_heartbeat |-> 0,
     hb_state |-> BridgeDefaultState]

NoDaemon == [NewDaemon EXCEPT !.running = FALSE, !.pc = "exited"]

\* --------------------------------------------------------------- the lock
NoLock == [held |-> FALSE, op |-> "", outcome |-> "", st |-> HookDefaultState, save |-> FALSE,
           session_id |-> "", removed_slot |-> 0, had_dir |-> FALSE, deadline |-> 0]

VARIABLES
    now,          \* the wall clock
    state_json,   \* the registry file state.json
    lock,         \* .state.lock and the locked_state_op holding it
    ipc,          \* ipc/<session_id>: the mailbox directories
    next_id,      \* the next fresh event id
    bd,           \* the BridgeDaemon process and its in-memory state
    tg,           \* the chat platform: forum topics and shown buttons
    hook,         \* the running invocations of hook.py --hook
    used          \* how many commands and chat updates have been issued so far

vars == <<now, state_json, lock, ipc, next_id, bd, tg, hook, used>>

\* ------------------------------------------------------- registry self-healing
\* os.kill(pid, 0): the recorded pid names a live process
is_daemon_alive(st, d) == st.daemon_pid # 0 /\ d.running

\* "active", or the reason the slot is not, or "TypeError" where the code
\* subtracts a None heartbeat from the current time
is_slot_actually_active(st, info, dirs, d, t) ==
    LET box == dirs[info.session_id]
    IN  IF ~box.exists THEN "ipc_dir_missing"
        ELSE IF ~box.meta THEN "meta_missing"
        ELSE IF box.kill # "" THEN "kill_file_present"
        ELSE IF is_daemon_alive(st, d) THEN "active"
        ELSE IF st.daemon_heartbeat = -1 THEN "TypeError"
        ELSE IF t - st.daemon_heartbeat < HeartbeatFresh THEN "active"
        ELSE "daemon_dead"

\* a cleanup that evicts nothing
cleanup_stale_slots_none(st, i, dirs, d, t) == [st |-> st, ipc |-> dirs, err |-> FALSE]

\* cleanup_stale_slots(state, preserve_ipc_dirs=False), from slot entry i on:
\* every slot that is not active is dropped and its mailbox removed
RECURSIVE cleanup_stale_slots(_, _, _, _, _)
cleanup_stale_slots(st, i, dirs, d, t) ==
    IF i > Len(st.slots) THEN [st |-> st, ipc |-> dirs, err |-> FALSE]
    ELSE LET info == st.slots[i]
             r == is_slot_actually_active(st, info, dirs, d, t)
         IN  IF r = "active" THEN cleanup_stale_slots(st, i + 1, dirs, d, t)
             ELSE IF r = "TypeError" THEN [st |-> st, ipc |-> dirs, err |-> TRUE]
             ELSE cleanup_stale_slots([st EXCEPT !.slots = RemoveAt(@, i)], i,
                                      [dirs EXCEPT ![info.session_id] = NoDir], d, t)

ProjectOf(project) == IF project = "" THEN "unknown" ELSE project

\* topic_name or f"S{slot} - {project or 'unknown'}"
TopicName(topic_name, slot, project) ==
    IF topic_name # ""
    THEN [custom |-> topic_name, slot |-> 0, project |-> ""]
    ELSE [custom |-> "", slot |-> slot, project |-> ProjectOf(project)]

\* a duplicate search that finds nothing
DuplicateIndexNone(slots, project, topic_name) == 0

\* index of the first slot with the same project and topic label, 0 when none
DuplicateIndex(slots, project, topic_name) ==
    LET hits == {i \in 1..Len(slots) :
                    /\ slots[i].project = ProjectOf(project)
                    /\ slots[i].topic_name = TopicName(topic_name, slots[i].slot, project)}
    IN  IF hits = {} THEN 0 ELSE Min(hits)

\* the free-slot search run one slot number too far
FreeSlotsOneMore(slots) == {i \in 1..(max_slots + 1) : i \notin SlotNums(slots)}

\* "for i in range(1, max_slots + 1): if str(i) not in slots"
FreeSlots(slots) == {i \in 1..max_slots : i \notin SlotNums(slots)}

\* cmd_activate.do_activate(state), run on the state loaded under the lock.
\* outcome: "claimed", "already" (returns the slot), "full" (sys.exit(1), so
\* nothing is saved) or "error" (an uncaught TypeError, nothing is saved).
do_activate(st0, dirs0, d, t, session_id, project, topic_name) ==
    LET c == cleanup_stale_slots(st0, 1, dirs0, d, t)
        st1 == c.st
        \* orphaned mailbox directories are removed
        dirs1 == [s \in Sessions |-> IF s \in SessionIds(st1.slots) THEN c.ipc[s] ELSE NoDir]
        already == IndexOfSession(st1.slots, session_id)
        dup == DuplicateIndex(st1.slots, project, topic_name)
        dup_active == dup # 0 /\ is_slot_actually_active(st1, st1.slots[dup], dirs1, d, t) = "active"
        slots2 == IF dup = 0 THEN st1.slots ELSE RemoveAt(st1.slots, dup)
        dirs2 == IF dup_active THEN [dirs1 EXCEPT ![st1.slots[dup].session_id] = NoDir] ELSE dirs1
        free == FreeSlots(slots2)
        assigned_slot == Min(free)
        claimed == [slot |-> assigned_slot, session_id |-> session_id,
                    project |-> ProjectOf(project),
                    topic_name |-> TopicName(topic_name, assigned_slot, project),
                    thread_id |-> 0]
        start == ~is_daemon_alive(st1, d)
        st3 == [slots |-> Append(slots2, claimed),
                daemon_pid |-> IF start THEN DaemonPid ELSE st1.daemon_pid,
                daemon_heartbeat |-> IF start THEN t ELSE st1.daemon_heartbeat]
        dirs3 == [dirs2 EXCEPT ![session_id] =
                     [@ EXCEPT !.exists = TRUE, !.meta = TRUE,
                               !.events = Append(@, Event(0, "activation", assigned_slot, t))]]
    IN  IF c.err THEN [outcome |-> "error", st |-> st0, ipc |-> c.ipc, start |-> FALSE]
        ELSE IF already # 0 THEN [outcome |-> "already", st |-> st1, ipc |-> dirs1, start |-> FALSE]
        ELSE IF free = {} THEN [outcome |-> "full", st |-> st0, ipc |-> dirs2, start |-> FALSE]
        ELSE [outcome |-> "claimed", st |-> st3, ipc |-> dirs3, start |-> start]

\* locked_state_op(do_activate) up to and including fn(state): the lock is
\* taken, state.json is loaded and do_activate runs on the loaded copy,
\* creating the mailbox, starting the daemon and appending the activation
\* event; save_state(state) is the step that follows.
ActivateBegin(session_id, project, topic_name) ==
    /\ ~lock.held
    /\ LET r == do_activate(hook_load_state(state_json), ipc, bd, now,
                            session_id, project, topic_name)
       IN  /\ ipc' = r.ipc
           /\ bd' = IF r.start THEN NewDaemon ELSE bd
           /\ lock' = [NoLock EXCEPT !.held = TRUE, !.op = "activate", !.st = r.st,
                                     !.outcome = r.outcome,
                                     !.save = r.outcome \in {"claimed", "already"},
                                     !.session_id = session_id]
    /\ used' = [used EXCEPT !.cmds = @ + 1]
    /\ UNCHANGED <<hook, now, state_json, next_id, tg>>

\* locked_state_op: save_state(state) and the release of the lock
ActivateEnd ==
    /\ lock.held /\ lock.op = "activate"
    /\ state_json' = IF lock.save THEN save_state(lock.st) ELSE state_json
    /\ lock' = NoLock
    /\ UNCHANGED <<used, hook, now, ipc, next_id, bd, tg>>

\* cmd_deactivate.do_deactivate up to its wait for the daemon: the slot is
\* looked up (falling back to the first slot), and the deactivation event is
\* appended while the slot is still in state.json
DeactivateBegin(session_id) ==
    /\ ~lock.held
    /\ LET st == hook_load_state(state_json)
           own == IndexOfSession(st.slots, session_id)
           i == IF own # 0 THEN own ELSE IF Len(st.slots) > 0 THEN 1 ELSE 0
           actual_session_id == IF i = 0 THEN session_id ELSE st.slots[i].session_id
           removed_slot == IF i = 0 THEN 0 ELSE st.slots[i].slot
           had_dir == i # 0 /\ ipc[actual_session_id].exists
       IN  /\ ipc' = IF had_dir
                     THEN [ipc EXCEPT ![actual_session_id].events =
                              Append(@, Event(0, "deactivation", removed_slot, now))]
                     ELSE ipc
           /\ lock' = [NoLock EXCEPT !.held = TRUE, !.op = "deactivate", !.st = st,
                                     !.save = TRUE, !.session_id = actual_session_id,
                                     !.removed_slot = removed_slot, !.had_dir = had_dir,
                                     !.deadline = now + DeactivateWait]
    /\ used' = [used EXCEPT !.cmds = @ + 1]
    /\ UNCHANGED <<hook, now, state_json, next_id, bd, tg>>

\* stop_daemon(state): SIGTERM to the recorded pid
stop_daemon(st, d) == IF st.daemon_pid # 0 THEN NoDaemon ELSE d

\* the rest of do_deactivate, once the processed marker is there or the wait
\* has run out: the slot is deleted from the loaded state, the mailbox removed,
\* the daemon stopped with the last session, and the state saved
\* a deactivation that does not wait for the daemon
wait_for_daemon_over_at_once(l, dirs, t) == TRUE

\* do_deactivate's wait: none without a slot or a mailbox directory, else
\* until the deactivation_processed marker is there or the deadline has passed
wait_for_daemon_over(l, dirs, t) ==
    \/ l.removed_slot = 0
    \/ ~l.had_dir
    \/ dirs[l.session_id].processed
    \/ t >= l.deadline

DeactivateEnd ==
    /\ lock.held /\ lock.op = "deactivate"
    /\ wait_for_daemon_over(lock, ipc, now)
    /\ IF lock.removed_slot = 0
       THEN /\ state_json' = save_state(lock.st)
            /\ UNCHANGED <<used, hook, ipc, bd, tg>>
       ELSE LET i == IndexOfSession(lock.st.slots, lock.session_id)
                thread_id == lock.st.slots[i].thread_id
                fallback == lock.had_dir /\ ~ipc[lock.session_id].processed /\ thread_id # 0
                slots1 == RemoveAt(lock.st.slots, i)
                last == slots1 = <<>>
                st1 == IF last
                       THEN [slots |-> slots1, daemon_pid |-> 0, daemon_heartbeat |-> -1]
                       ELSE [lock.st EXCEPT !.slots = slots1]
            IN  /\ state_json' = save_state(st1)
                /\ ipc' = IF last THEN [s \in Sessions |-> NoDir]
                          ELSE [ipc EXCEPT ![lock.session_id] = NoDir]
                /\ bd' = IF last THEN stop_daemon(lock.st, bd) ELSE bd
                /\ tg' = IF fallback THEN [tg EXCEPT !.topics = @ \ {thread_id}] ELSE tg
    /\ lock' = NoLock
    /\ UNCHANGED <<used, hook, now, next_id>>

\* ------------------------------------------------------------ chat platform
\* buttons: the callback data of every inline keyboard the daemon has sent;
\* prompted: the event ids of the permission prompts it has sent;
\* stale_warnings: the "agent may be unresponsive" messages delivered, counted
\* by the pending interaction they are about;
\* idle_notices: the "Session idle for Nh" messages delivered, counted by the
\* session they are about
NewChat == [topics |-> {}, next_thread |-> 1, buttons |-> {}, prompted |-> {},
            stale_warnings |-> [i \in PendingIds |-> 0],
            idle_notices |-> [s \in Sessions |-> 0]]

Button(action, id, session_id) == [action |-> action, id |-> id, session_id |-> session_id]

\* TelegramAPI.send_message: "fail" is _request returning None (a transport
\* error), "topic_deleted" the platform's "message thread not found"
send_message(chat, thread_id, net) ==
    IF net = "fail" THEN "fail"
    ELSE IF thread_id # 0 /\ thread_id \notin chat.topics THEN "topic_deleted"
    ELSE "ok"

\* The daemon's handlers are functions of the world they read and write:
\* the mailboxes, the daemon's memory, state.json and the chat platform.
World == [ipc |-> ipc, bd |-> bd, sj |-> state_json, tg |-> tg]

Apply(w) ==
    /\ ipc' = w.ipc
    /\ bd' = w.bd
    /\ state_json' = w.sj
    /\ tg' = w.tg

\* BridgeDaemon._kill_session: the kill marker, the topic, the thread binding
\* and the registry slot (load_state and save_state without the lock)
kill_session(w, session_id, reason) ==
    LET topic_id == w.bd.session_threads[session_id]
        st == bridge_load_state(w.sj)
        i == IndexOfSession(st.slots, session_id)
    IN  [ipc |-> IF w.ipc[session_id].exists
                 THEN [w.ipc EXCEPT ![session_id].kill = reason,
                                   ![session_id].killed_at = now] ELSE w.ipc,
         bd  |-> [w.bd EXCEPT !.session_threads[session_id] = 0],
         sj  |-> IF i # 0 THEN save_state([st EXCEPT !.slots = RemoveAt(@, i)]) ELSE w.sj,
         tg  |-> IF topic_id # 0 THEN [w.tg EXCEPT !.topics = @ \ {topic_id}] ELSE w.tg]

\* BridgeDaemon._send_to_session: the send's result, and the world after it
\* (a missing thread kills the session and the caller sees no result)
send_to_session_result(w, session_id, net) ==
    LET r == send_message(w.tg, w.bd.session_threads[session_id], net)
    IN  IF r = "topic_deleted" THEN "fail" ELSE r

send_to_session(w, session_id, net) ==
    IF send_message(w.tg, w.bd.session_threads[session_id], net) = "topic_deleted"
    THEN kill_session(w, session_id, "topic deleted by user")
    ELSE w

\* ------------------------------------------------------------------- texts
\* A text is the sequence of its characters; " " is the blank.
RECURSIVE LStrip(_)
LStrip(text) == IF text # <<>> /\ Head(text) = " " THEN LStrip(Tail(text)) ELSE text

RECURSIVE RStrip(_)
RStrip(text) ==
    IF text # <<>> /\ text[Len(text)] = " " THEN RStrip(SubSeq(text, 1, Len(text) - 1)) ELSE text

\* str.strip()
Strip(text) == RStrip(LStrip(text))

COMPACT_INSTRUCTION == <<"Summarize and compress this conversation">>

CLEAR_INSTRUCTION == <<"/clear">>

\* BridgeDaemon._write_response: create-or-overwrite of response-<id>.json
write_response(w, session_id, event_id, response) ==
    IF w.ipc[session_id].exists
    THEN [w EXCEPT !.ipc[session_id].responses[event_id] = response]
    ELSE w

DecisionResponse(decision, message) ==
    [NoResponse EXCEPT !.present = TRUE, !.decision = decision, !.message = message]

InstructionResponse(instruction, qlog) ==
    [NoResponse EXCEPT !.present = TRUE, !.has_instruction = TRUE, !.instruction = instruction,
                       !.qlog = qlog]

\* the words of a text
Words(text) == {text[i] : i \in 1..Len(text)} \ {" "}

\* BridgeDaemon._increment_interaction: the rewrite of meta.json
increment_interaction(w, session_id) ==
    IF w.ipc[session_id].exists THEN [w EXCEPT !.ipc[session_id].meta = TRUE] ELSE w

Pending(session_id, type, event_ids, t) ==
    [present |-> TRUE, session_id |-> session_id, type |-> type, event_ids |-> event_ids,
     created_at |-> t]

\* the first pending stop of a session, 0 when there is none
PendingStop(d, session_id) ==
    LET hits == {i \in PendingIds : /\ d.pending_events[i].present
                                    /\ d.pending_events[i].session_id = session_id
                                    /\ d.pending_events[i].type = "stop"}
    IN  IF hits = {} THEN 0 ELSE Min(hits)

\* a batch whose window starts again with every request read
process_permission_request_renew(w, session_id, slot, event, t) ==
    LET w1 == increment_interaction(w, session_id)
        old == w1.bd.permission_batch[session_id]
        batch == IF old.present THEN [old EXCEPT !.timer_start = t]
                 ELSE [present |-> TRUE, events |-> <<>>, timer_start |-> t, slot |-> slot]
    IN  [w1 EXCEPT !.bd.permission_batch[session_id] =
                       [batch EXCEPT !.events = Append(@, event)]]

\* a permission request that is allowed at once, outside any batch, when its
\* session is trusted
process_permission_request_trusted_now(w, session_id, slot, event, t) ==
    LET w1 == increment_interaction(w, session_id)
        old == w1.bd.permission_batch[session_id]
        batch == IF old.present THEN old
                 ELSE [present |-> TRUE, events |-> <<>>, timer_start |-> t, slot |-> slot]
    IN  IF w.bd.trusted_sessions[session_id]
        THEN write_response(w1, session_id, event.id, DecisionResponse("allow", <<>>))
        ELSE [w1 EXCEPT !.bd.permission_batch[session_id] =
                            [batch EXCEPT !.events = Append(@, event)]]

\* _process_event, etype == "permission_request": the event joins the
\* session's open batch, or opens one
process_permission_request(w, session_id, slot, event, t) ==
    LET w1 == increment_interaction(w, session_id)
        old == w1.bd.permission_batch[session_id]
        batch == IF old.present THEN old
                 ELSE [present |-> TRUE, events |-> <<>>, timer_start |-> t, slot |-> slot]
    IN  [w1 EXCEPT !.bd.permission_batch[session_id] =
                       [batch EXCEPT !.events = Append(@, event)]]

\* _process_event, etype == "stop"
process_stop(w, session_id, slot, event, net, t) ==
    LET w1 == increment_interaction(w, session_id)
        w2 == IF event.stop_hook_active THEN send_to_session(w1, session_id, net) ELSE w1
        queued == w2.ipc[session_id].queued
        instruction == Strip(queued.instruction)
        w3 == send_to_session(w2, session_id, net)
    IN  IF w2.ipc[session_id].exists /\ queued.present /\ instruction # <<>>
        THEN [write_response(w2, session_id, event.id,
                             InstructionResponse(instruction, queued.qlog))
                 EXCEPT !.ipc[session_id].queued = NoQueued]
        ELSE IF send_to_session_result(w2, session_id, net) = "ok"
        THEN [w3 EXCEPT !.bd.pending_events[event.id] = Pending(session_id, "stop", <<>>, t),
                        !.tg.buttons = @ \cup {Button("end_session", 0, session_id)}]
        ELSE w3

\* BridgeDaemon._auto_approve_permission
auto_approve_permission(w, session_id, event) ==
    write_response(w, session_id, event.id, DecisionResponse("allow", <<>>))

RECURSIVE auto_approve_all(_, _, _)
auto_approve_all(w, session_id, events) ==
    IF events = <<>> THEN w
    ELSE auto_approve_all(auto_approve_permission(w, session_id, Head(events)),
                          session_id, Tail(events))

\* BridgeDaemon._is_session_trusted
is_session_trusted(d, session_id) == d.trusted_sessions[session_id]

\* an approval count that offers the trust button from the first approval
track_approval_offer_always(w, session_id, count, net) ==
    LET total == w.bd.approval_counts[session_id] + count
        thread_id == w.bd.session_threads[session_id]
        w1 == [w EXCEPT !.bd.approval_counts[session_id] = total]
    IN  IF /\ ~is_session_trusted(w.bd, session_id)
           /\ thread_id # 0
           /\ send_message(w.tg, thread_id, net) = "ok"
        THEN [w1 EXCEPT !.tg.buttons = @ \cup {Button("trust_session", 0, session_id)}]
        ELSE w1

\* BridgeDaemon._track_approval: the count, and past the threshold the offer of
\* the trust button in the session's topic
track_approval(w, session_id, count, net) ==
    LET total == w.bd.approval_counts[session_id] + count
        thread_id == w.bd.session_threads[session_id]
        w1 == [w EXCEPT !.bd.approval_counts[session_id] = total]
    IN  IF /\ total >= session_trust_threshold
           /\ ~is_session_trusted(w.bd, session_id)
           /\ thread_id # 0
           /\ send_message(w.tg, thread_id, net) = "ok"
        THEN [w1 EXCEPT !.tg.buttons = @ \cup {Button("trust_session", 0, session_id)}]
        ELSE w1

EventIds(events) == [i \in 1..Len(events) |-> events[i].id]

\* _flush_permission_batches, one session's batch; event["id"] of a request
\* written without an id raises KeyError, which nothing in run() catches
flush_session(w, session_id, net, t) ==
    LET batch == w.bd.permission_batch[session_id]
        events == batch.events
        w0 == [w EXCEPT !.bd.permission_batch[session_id] = NoBatch]
        sent == send_to_session(w0, session_id, net)
        ok == send_to_session_result(w0, session_id, net) = "ok"
        event_id == events[1].id
        batch_id == MaxIds + events[1].id
    IN  IF ~batch.present \/ t - batch.timer_start < permission_batch_window_seconds THEN w
        ELSE IF \E k \in 1..Len(events) : events[k].id = 0
        THEN [w0 EXCEPT !.bd.running = FALSE]
        ELSE IF is_session_trusted(w.bd, session_id)
        THEN auto_approve_all(w0, session_id, events)
        ELSE IF ~ok THEN sent
        ELSE IF Len(events) = 1
        THEN [sent EXCEPT
                !.bd.pending_events[event_id] = Pending(session_id, "permission_request", <<>>, t),
                !.tg.buttons = @ \cup {Button("allow", event_id, session_id),
                                        Button("deny", event_id, session_id)},
                !.tg.prompted = @ \cup {event_id}]
        ELSE [sent EXCEPT
                !.bd.pending_events[batch_id] =
                    Pending(session_id, "permission_batch", EventIds(events), t),
                !.tg.buttons = @ \cup {Button("approve_all", batch_id, session_id),
                                        Button("deny_all", batch_id, session_id)},
                !.tg.prompted = @ \cup {events[i].id : i \in 1..Len(events)}]

\* a stale check that forgets which interactions it has warned about
check_stale_events_forgetful(w, net, t) ==
    LET stale == {i \in PendingIds :
                    /\ w.bd.pending_events[i].present
                    /\ t - w.bd.pending_events[i].created_at > stale_warning_seconds}
        delivered == {i \in stale :
                        LET thread_id == w.bd.session_threads[w.bd.pending_events[i].session_id]
                        IN  thread_id # 0 /\ send_message(w.tg, thread_id, net) = "ok"}
    IN  [w EXCEPT !.tg.stale_warnings =
                      [i \in PendingIds |-> IF i \in delivered THEN @[i] + 1 ELSE @[i]]]

\* BridgeDaemon._check_stale_events: every pending interaction older than
\* stale_warning_seconds and not yet warned about is marked as warned about,
\* and the warning is sent if its session has a topic
check_stale_events(w, net, t) ==
    LET stale == {i \in PendingIds :
                    /\ w.bd.pending_events[i].present
                    /\ t - w.bd.pending_events[i].created_at > stale_warning_seconds
                    /\ i \notin w.bd.stale_warned}
        delivered == {i \in stale :
                        LET thread_id == w.bd.session_threads[w.bd.pending_events[i].session_id]
                        IN  thread_id # 0 /\ send_message(w.tg, thread_id, net) = "ok"}
    IN  [w EXCEPT !.bd.stale_warned = @ \cup stale,
                  !.tg.stale_warnings =
                      [i \in PendingIds |-> IF i \in delivered THEN @[i] + 1 ELSE @[i]]]

RECURSIVE flush_permission_batches(_, _, _, _)
flush_permission_batches(w, todo, net, t) ==
    IF todo = {} \/ ~w.bd.running THEN w
    ELSE LET session_id == CHOOSE s \in todo : TRUE
         IN  flush_permission_batches(flush_session(w, session_id, net, t),
                                      todo \ {session_id}, net, t)

\* a resolution that falls back on the first active session, however many
\* sessions are active
resolve_target_first_active(w, thread_id) ==
    LET hits == {s \in Sessions : w.bd.session_threads[s] # 0
                                  /\ w.bd.session_threads[s] = thread_id}
        active == get_active_sessions(bridge_load_state(w.sj))
    IN  IF hits # {} THEN CHOOSE s \in hits : TRUE
        ELSE IF Len(active) >= 1 THEN active[1][1]
        ELSE ""

\* the session a chat message is for: the session of its topic, else the only
\* active session of the registry, else none ("")
resolve_target(w, thread_id) ==
    LET hits == {s \in Sessions : w.bd.session_threads[s] # 0
                                  /\ w.bd.session_threads[s] = thread_id}
        active == get_active_sessions(bridge_load_state(w.sj))
    IN  IF hits # {} THEN CHOOSE s \in hits : TRUE
        ELSE IF Len(active) = 1 THEN active[1][1]
        ELSE ""

\* "for eid in list(self.pending_events.keys()): if ... == target: del"
drop_pending_of(d, session_id) ==
    [d EXCEPT !.pending_events =
        [i \in PendingIds |-> IF @[i].present /\ @[i].session_id = session_id
                              THEN NoPending ELSE @[i]]]

\* /end and the end_session button
end_session(w, session_id, reason) ==
    LET w1 == kill_session(w, session_id, reason)
    IN  [w1 EXCEPT !.bd = drop_pending_of(w1.bd, session_id)]

\* a clear that leaves the trust and the approval count as they are
context_command_keep_trust(w, session_id, command) ==
    LET instruction == IF command = "clear" THEN CLEAR_INSTRUCTION ELSE COMPACT_INSTRUCTION
        stop_event_id == PendingStop(w.bd, session_id)
        w1 == IF stop_event_id # 0
              THEN [write_response(w, session_id, stop_event_id,
                                   InstructionResponse(instruction, <<instruction>>))
                       EXCEPT !.bd.pending_events[stop_event_id] = NoPending]
              ELSE IF w.ipc[session_id].exists
              THEN [w EXCEPT !.ipc[session_id].queued =
                                 [present |-> TRUE, instruction |-> instruction,
                                  qlog |-> <<instruction>>]]
              ELSE w
    IN  IF command # "clear" THEN w1
        ELSE [w1 EXCEPT !.ipc[session_id].force_clear = w1.ipc[session_id].exists]


\* a context command that writes the force marker for compact as for clear
context_command_force_always(w, session_id, command) ==
    LET instruction == IF command = "clear" THEN CLEAR_INSTRUCTION ELSE COMPACT_INSTRUCTION
        stop_event_id == PendingStop(w.bd, session_id)
        w1 == IF stop_event_id # 0
              THEN [write_response(w, session_id, stop_event_id,
                                   InstructionResponse(instruction, <<instruction>>))
                       EXCEPT !.bd.pending_events[stop_event_id] = NoPending]
              ELSE IF w.ipc[session_id].exists
              THEN [w EXCEPT !.ipc[session_id].queued =
                                 [present |-> TRUE, instruction |-> instruction,
                                  qlog |-> <<instruction>>]]
              ELSE w
        w2 == [w1 EXCEPT !.ipc[session_id].force_clear = w1.ipc[session_id].exists]
    IN  IF command # "clear" THEN w2
        ELSE [w2 EXCEPT !.bd.trusted_sessions[session_id] = FALSE,
                        !.bd.approval_counts[session_id] = 0]

\* /clear and /compact, typed or tapped: the instruction answers the pending
\* stop or overwrites the queue file; clear also writes the force marker and
\* resets the session's trust
context_command(w, session_id, command) ==
    LET instruction == IF command = "clear" THEN CLEAR_INSTRUCTION ELSE COMPACT_INSTRUCTION
        stop_event_id == PendingStop(w.bd, session_id)
        w1 == IF stop_event_id # 0
              THEN [write_response(w, session_id, stop_event_id,
                                   InstructionResponse(instruction, <<instruction>>))
                       EXCEPT !.bd.pending_events[stop_event_id] = NoPending]
              ELSE IF w.ipc[session_id].exists
              THEN [w EXCEPT !.ipc[session_id].queued =
                                 [present |-> TRUE, instruction |-> instruction,
                                  qlog |-> <<instruction>>]]
              ELSE w
    IN  IF command # "clear" THEN w1
        ELSE [w1 EXCEPT !.ipc[session_id].force_clear = w1.ipc[session_id].exists,
                        !.bd.trusted_sessions[session_id] = FALSE,
                        !.bd.approval_counts[session_id] = 0]

\* a reply that replaces what is queued instead of joining it
route_reply_overwrite(w, session_id, text) ==
    LET stop_event_id == PendingStop(w.bd, session_id)
        queued == w.ipc[session_id].queued
    IN  IF stop_event_id # 0
        THEN [write_response(w, session_id, stop_event_id, InstructionResponse(text, <<text>>))
                 EXCEPT !.bd.pending_events[stop_event_id] = NoPending]
        ELSE IF w.ipc[session_id].exists
        THEN [w EXCEPT !.ipc[session_id].queued =
                           [present |-> TRUE, instruction |-> text,
                            qlog |-> Append(queued.qlog, text)]]
        ELSE w

\* a reply that joins the queue file whether or not a stop is waiting
route_reply_queue_always(w, session_id, text) ==
    LET queued == w.ipc[session_id].queued
        existing_instruction == IF queued.present THEN queued.instruction \o <<" ">> ELSE <<>>
        heard == [w EXCEPT !.ipc[session_id].accepted =
                               IF w.ipc[session_id].exists THEN @ \cup Words(text) ELSE @]
    IN  IF w.ipc[session_id].exists
        THEN increment_interaction(
               [heard EXCEPT !.ipc[session_id].queued =
                                 [present |-> TRUE, instruction |-> existing_instruction \o text,
                                  qlog |-> Append(queued.qlog, text)]], session_id)
        ELSE w

\* _handle_message, an ordinary reply: answers the pending stop, else joins
\* the queue file after a blank
route_reply(w, session_id, text) ==
    LET stop_event_id == PendingStop(w.bd, session_id)
        queued == w.ipc[session_id].queued
        existing_instruction == IF queued.present THEN queued.instruction \o <<" ">> ELSE <<>>
        final_instruction == existing_instruction \o text
        heard == [w EXCEPT !.ipc[session_id].accepted =
                               IF w.ipc[session_id].exists THEN @ \cup Words(text) ELSE @]
    IN  IF stop_event_id # 0
        THEN increment_interaction(
               [write_response(heard, session_id, stop_event_id,
                               InstructionResponse(text, <<text>>))
                   EXCEPT !.bd.pending_events[stop_event_id] = NoPending], session_id)
        ELSE IF w.ipc[session_id].exists
        THEN increment_interaction(
               [heard EXCEPT !.ipc[session_id].queued =
                                 [present |-> TRUE, instruction |-> final_instruction,
                                  qlog |-> Append(queued.qlog, text)]], session_id)
        ELSE w

\* str.lower() on the characters the commands are written with
LowerChar(c) ==
    CASE c = "/CLEAR" -> "/clear"
      [] c = "/END" -> "/end"
      [] OTHER -> c

Lower(text) == [i \in 1..Len(text) |-> LowerChar(text[i])]

\* BridgeDaemon._handle_message
handle_message(w, raw, thread_id, net, t) ==
    LET text == Strip(raw)
        target_session == resolve_target(w, thread_id)
    IN  IF text = <<>> THEN w
        ELSE IF Lower(text) = <<"/ping">> THEN w
        ELSE IF Lower(text) = <<"/end">>
        THEN IF target_session # ""
             THEN end_session(w, target_session, "ended from Telegram via /end") ELSE w
        ELSE IF Lower(text) \in {<<"/clear">>, <<"/compact">>}
        THEN IF target_session # ""
             THEN context_command(w, target_session,
                                  IF Lower(text) = <<"/clear">> THEN "clear" ELSE "compact")
             ELSE w
        ELSE IF target_session # "" THEN route_reply(w, target_session, text)
        ELSE w

RECURSIVE write_decisions(_, _, _, _)
write_decisions(w, session_id, event_ids, response) ==
    IF event_ids = <<>> THEN w
    ELSE write_decisions(write_response(w, session_id, Head(event_ids), response),
                         session_id, Tail(event_ids), response)

\* BridgeDaemon._handle_callback; cb is the callback data "<action>:<id>", the
\* id being an event id, a batch id or a session id as the action has it
\* a resolution that leaves the pending entry where it is
forget_pending_not(w, id) == w

\* del self.pending_events[event_id]
forget_pending(w, id) == [w EXCEPT !.bd.pending_events[id] = NoPending]

handle_callback(w, cb, net, t) ==
    LET pending == w.bd.pending_events[cb.id]
        session_id == pending.session_id
        drop == forget_pending(w, cb.id)
    IN  CASE cb.action \in {"allow", "deny", "stop"} ->
               IF ~pending.present THEN w
               ELSE IF cb.action = "allow"
               THEN track_approval(
                      write_response(drop, session_id, cb.id, DecisionResponse("allow", <<>>)),
                      session_id, 1, net)
               ELSE IF cb.action = "deny"
               THEN write_response(drop, session_id, cb.id,
                                   DecisionResponse("deny", <<"Denied via Telegram">>))
               ELSE write_response(drop, session_id, cb.id, InstructionResponse(<<>>, <<>>))
          [] cb.action = "end_session" -> end_session(w, cb.session_id, "ended from Telegram")
          [] cb.action \in {"approve_all", "deny_all"} ->
               IF ~pending.present THEN w
               ELSE IF cb.action = "approve_all"
               THEN track_approval(
                      write_decisions(drop, session_id, pending.event_ids,
                                      DecisionResponse("allow", <<>>)),
                      session_id, Len(pending.event_ids), net)
               ELSE write_decisions(drop, session_id, pending.event_ids,
                                    DecisionResponse("deny", <<"Denied via Telegram (batch)">>))
          [] cb.action = "trust_session" ->
               [w EXCEPT !.bd.trusted_sessions[cb.session_id] = TRUE]
          [] cb.action \in {"compact", "clear"} -> context_command(w, cb.session_id, cb.action)
          [] OTHER -> w

\* BridgeDaemon._handle_update
handle_update(w, update, net, t) ==
    IF update.kind = "callback_query" THEN handle_callback(w, update.data, net, t)
    ELSE handle_message(w, update.text, update.thread_id, net, t)

CallbackQuery(cb) ==
    [kind |-> "callback_query", data |-> cb, text |-> <<>>, thread_id |-> 0]

Message(text, thread_id) ==
    [kind |-> "message", data |-> Button("", 0, ""), text |-> text, thread_id |-> thread_id]

\* _process_event, etype == "activation"
process_activation(w, session_id, net, t) ==
    LET created == net = "ok" /\ w.tg.next_thread <= MaxThreads
        thread_id == w.tg.next_thread
        st == bridge_load_state(w.sj)
        i == IndexOfSession(st.slots, session_id)
    IN  IF created
        THEN [ipc |-> w.ipc,
              bd  |-> [w.bd EXCEPT !.session_threads[session_id] = thread_id,
                                   !.last_idle_ping[session_id] = t],
              sj  |-> IF i # 0 THEN save_state([st EXCEPT !.slots[i].thread_id = thread_id])
                      ELSE w.sj,
              tg  |-> [w.tg EXCEPT !.topics = @ \cup {thread_id}, !.next_thread = thread_id + 1]]
        ELSE [w EXCEPT !.bd.last_idle_ping[session_id] = t]

\* _process_event, etype == "deactivation"
process_deactivation(w, session_id) ==
    LET topic_id == w.bd.session_threads[session_id]
    IN  [ipc |-> IF w.ipc[session_id].exists
                 THEN [w.ipc EXCEPT ![session_id].processed = TRUE] ELSE w.ipc,
         bd  |-> [w.bd EXCEPT !.session_threads[session_id] = 0],
         sj  |-> w.sj,
         tg  |-> IF topic_id # 0 THEN [w.tg EXCEPT !.topics = @ \ {topic_id}] ELSE w.tg]

\* BridgeDaemon._process_event
\* the idle notice of _process_event's keep_alive branch, sent with
\* _send_to_session
send_idle_notice(w, session_id, net) ==
    LET sent == send_to_session(w, session_id, net)
    IN  IF send_to_session_result(w, session_id, net) = "ok"
        THEN [sent EXCEPT !.tg.idle_notices[session_id] = @ + 1]
        ELSE sent

\* a keep_alive branch that takes the threshold for exceeded every time
process_keep_alive_every_time(w, session_id, net, t) ==
    LET last_ping == w.bd.last_idle_ping[session_id]
        hours_idle == IF last_ping # 0 THEN (t - last_ping) \div SecondsPerHour ELSE 0
        sent == IF hours_idle > 0 THEN send_idle_notice(w, session_id, net) ELSE w
    IN  [sent EXCEPT !.bd.last_idle_ping[session_id] = t]

\* BridgeDaemon._process_event, keep_alive: last_idle_ping.get(session_id, 0)
\* is 0 for a session whose activation this daemon has not processed, and
\* time.time() minus 0 exceeds every threshold; hours_idle is the elapsed time
\* in whole hours, and 0 when there is no last ping
process_keep_alive(w, session_id, net, t) ==
    LET last_ping == w.bd.last_idle_ping[session_id]
        hours_idle == IF last_ping # 0 THEN (t - last_ping) \div SecondsPerHour ELSE 0
        sent == IF hours_idle > 0 THEN send_idle_notice(w, session_id, net) ELSE w
    IN  IF last_ping = 0 \/ t - last_ping > idle_ping_seconds
        THEN [sent EXCEPT !.bd.last_idle_ping[session_id] = t]
        ELSE w

process_event(w, session_id, slot, event, net, t) ==
    CASE event.type = "activation" -> process_activation(w, session_id, net, t)
      [] event.type = "deactivation" -> process_deactivation(w, session_id)
      [] event.type = "permission_request" ->
            process_permission_request(w, session_id, slot, event, t)
      [] event.type = "stop" -> process_stop(w, session_id, slot, event, net, t)
      [] event.type \in {"notification", "response"} -> send_to_session(w, session_id, net)
      [] event.type = "keep_alive" -> process_keep_alive(w, session_id, net, t)
      [] OTHER -> w

\* _scan_events on one session's new lines
RECURSIVE scan_lines(_, _, _, _, _, _)
scan_lines(w, session_id, slot, new_lines, net, t) ==
    IF new_lines = <<>> THEN w
    ELSE scan_lines(process_event(w, session_id, slot, Head(new_lines), net, t),
                    session_id, slot, Tail(new_lines), net, t)

\* _scan_events: each active session's event log is read from the recorded
\* offset to its end, the offset moved there, and the lines read processed
RECURSIVE scan_events(_, _, _, _)
scan_events(w, active, net, t) ==
    IF active = <<>> THEN w
    ELSE LET session_id == Head(active)[1]
             slot == Head(active)[2]
             log == w.ipc[session_id].events
             pos == w.bd.event_positions[session_id]
             w1 == [w EXCEPT !.bd.event_positions[session_id] = Len(log)]
         IN  IF ~w.ipc[session_id].exists \/ pos >= Len(log)
             THEN scan_events(w, Tail(active), net, t)
             ELSE scan_events(scan_lines(w1, session_id, slot,
                                         SubSeq(log, pos + 1, Len(log)), net, t),
                              Tail(active), net, t)

HeartbeatDue == bd.last_heartbeat = 0 \/ now - bd.last_heartbeat > HeartbeatEvery

\* run(): _heartbeat's load_state, made when HEARTBEAT_INTERVAL has passed
DaemonHeartbeat ==
    /\ bd.running /\ bd.pc = "top" /\ HeartbeatDue
    /\ bd' = [bd EXCEPT !.pc = "hb_save", !.hb_state = bridge_load_state(state_json)]
    /\ UNCHANGED <<used, hook, now, state_json, lock, ipc, next_id, tg>>

\* _heartbeat's save_state of the state it loaded
DaemonHeartbeatSave ==
    /\ bd.running /\ bd.pc = "hb_save"
    /\ state_json' = save_state([bd.hb_state EXCEPT !.daemon_heartbeat = now])
    /\ bd' = [bd EXCEPT !.pc = "scan", !.last_heartbeat = now, !.hb_state = BridgeDefaultState]
    /\ UNCHANGED <<used, hook, now, lock, ipc, next_id, tg>>

\* run(): _scan_events, _check_stale_events and _flush_permission_batches, up
\* to the long poll of get_updates (EVENT_SCAN_INTERVAL is below the clock's
\* resolution)
DaemonScanEvents(net) ==
    /\ bd.running /\ (bd.pc = "scan" \/ (bd.pc = "top" /\ ~HeartbeatDue))
    /\ LET active == get_active_sessions(bridge_load_state(state_json))
           w == flush_permission_batches(
                  check_stale_events(scan_events(World, active, net, now), net, now),
                  Sessions, net, now)
       IN  Apply(IF w.bd.running THEN [w EXCEPT !.bd.pc = "poll"]
                 ELSE [w EXCEPT !.bd = NoDaemon])
    /\ UNCHANGED <<used, hook, now, lock, next_id>>

\* run(): self._handle_update(update) for an update get_updates returned
DaemonHandleUpdate(update, net) ==
    /\ bd.running /\ bd.pc = "poll"
    /\ Apply(handle_update(World, update, net, now))
    /\ used' = [used EXCEPT !.updates = @ + 1]
    /\ UNCHANGED <<hook, now, lock, next_id>>

\* run(): the end of an iteration; with no slot in state.json the daemon stops
DaemonLoopEnd ==
    /\ bd.running /\ bd.pc = "poll"
    /\ bd' = IF bridge_load_state(state_json).slots = <<>> THEN NoDaemon
             ELSE [bd EXCEPT !.pc = "top"]
    /\ UNCHANGED <<used, hook, now, state_json, lock, ipc, next_id, tg>>

\* ------------------------------------------------------------------ adapter
Procs == {"h1", "h2"}

auto_approve_tools == {"Read"}

\* the path keys of a tool input; <<>> is a key that is absent or empty
NoToolInput == [file_path |-> <<>>, path |-> <<>>, notebook_path |-> <<>>]

\* tool_name, tool_input, auto_paths: the permission request a call was made
\* with and the auto_approve_paths of the configuration it loaded
NoHook == [pc |-> "idle", session_id |-> "", dir |-> "", hook_event |-> "",
           event_id |-> 0, deadline |-> 0, asleep |-> FALSE,
           result |-> "", reason |-> <<>>, qlog |-> <<>>,
           tool_name |-> "", tool_input |-> NoToolInput, auto_paths |-> <<>>]

\* fnmatch.fnmatch on a path and a pattern of literal characters, "?" (any
\* one character) and "*" (any characters, "/" included)
RECURSIVE fnmatch(_, _)
fnmatch(name, pat) ==
    IF pat = <<>> THEN name = <<>>
    ELSE IF Head(pat) = "*"
    THEN fnmatch(name, Tail(pat)) \/ (name # <<>> /\ fnmatch(Tail(name), pat))
    ELSE /\ name # <<>>
         /\ Head(pat) = "?" \/ Head(pat) = Head(name)
         /\ fnmatch(Tail(name), Tail(pat))

\* tool_input.get("file_path") or .get("path") or .get("notebook_path") or ""
tool_file_path(tool_input) ==
    IF tool_input.file_path # <<>> THEN tool_input.file_path
    ELSE IF tool_input.path # <<>> THEN tool_input.path
    ELSE tool_input.notebook_path

\* an allow-list check that looks at the tool name only
should_approve_any_path(tool_name, tool_input, auto_approve, auto_paths) ==
    tool_name \in auto_approve

\* cmd_hook's allow-list check of a permission request
should_approve(tool_name, tool_input, auto_approve, auto_paths) ==
    /\ tool_name \in auto_approve
    /\ \/ auto_paths = <<>>
       \/ tool_file_path(tool_input) = <<>>
       \/ \E k \in 1..Len(auto_paths) : fnmatch(tool_file_path(tool_input), auto_paths[k])

\* cmd_hook's choice of the mailbox: the caller's own directory, else the one
\* bound to it, else the only unbound one (bound on this first contact), else
\* none ("")
resolve_ipc_dir(dirs, session_id) ==
    LET bound == {d \in Sessions : dirs[d].exists /\ dirs[d].bound = session_id}
        unbound == {d \in Sessions : dirs[d].exists /\ dirs[d].bound = ""}
    IN  IF session_id \in Sessions /\ dirs[session_id].exists THEN session_id
        ELSE IF bound # {} THEN CHOOSE d \in bound : TRUE
        ELSE IF Cardinality(unbound) = 1 THEN CHOOSE d \in unbound : TRUE
        ELSE ""

bind_session(dirs, session_id) ==
    LET dir == resolve_ipc_dir(dirs, session_id)
    IN  IF dir # "" /\ dir # session_id /\ dirs[dir].bound = ""
        THEN [dirs EXCEPT ![dir].bound = session_id] ELSE dirs

Returned(h, result, reason) ==
    [h EXCEPT !.pc = "done", !.result = result, !.reason = reason, !.asleep = FALSE,
              !.deadline = 0]

\* an allow-list approval that appends the request to the event log
auto_approved_logged(dirs, logged) == logged

\* the mailboxes after an allow-list approval: the result is printed and the
\* call exits before any event is written
auto_approved(dirs, logged) == dirs

\* cmd_hook up to the first poll: the mailbox is resolved, an auto-approved
\* tool is allowed at once, a permission request or a stop is appended to the
\* event log and waited for, a notification is appended and passed
HookCall(p, session_id, hook_event, tool_name, tool_input, auto_paths, stop_hook_active) ==
    LET dir == resolve_ipc_dir(ipc, session_id)
        dirs == bind_session(ipc, session_id)
        h0 == [NoHook EXCEPT !.session_id = session_id, !.dir = dir, !.hook_event = hook_event]
        h == IF dir # "" /\ hook_event = "PermissionRequest"
             THEN [h0 EXCEPT !.tool_name = tool_name, !.tool_input = tool_input,
                             !.auto_paths = auto_paths]
             ELSE h0
        approve == should_approve(tool_name, tool_input, auto_approve_tools, auto_paths)
        event == [Event(IF hook_event = "Notification" THEN 0 ELSE next_id,
                        CASE hook_event = "PermissionRequest" -> "permission_request"
                          [] hook_event = "Stop" -> "stop"
                          [] OTHER -> "notification", 0, now)
                    EXCEPT !.stop_hook_active = stop_hook_active]
        logged == [dirs EXCEPT ![dir].events = Append(@, event)]
    IN  /\ hook[p].pc \in {"idle", "done"}
        /\ IF dir = ""
           THEN /\ hook' = [hook EXCEPT ![p] = Returned(h, "pass", <<>>)]
                /\ UNCHANGED <<ipc, next_id>>
           ELSE CASE hook_event = "PermissionRequest" /\ approve ->
                       /\ hook' = [hook EXCEPT ![p] = Returned(h, "allow", <<>>)]
                       /\ ipc' = auto_approved(dirs, logged)
                       /\ UNCHANGED next_id
                  [] hook_event = "PermissionRequest" /\ ~approve ->
                       /\ next_id <= MaxIds
                       /\ hook' = [hook EXCEPT ![p] =
                                     [h EXCEPT !.pc = "poll_response", !.event_id = next_id,
                                               !.deadline = now + permission_timeout]]
                       /\ ipc' = logged
                       /\ next_id' = next_id + 1
                  [] hook_event = "Stop" ->
                       /\ next_id <= MaxIds
                       /\ hook' = [hook EXCEPT ![p] =
                                     [h EXCEPT !.pc = "poll_response_or_kill",
                                               !.event_id = next_id,
                                               !.deadline = now + keep_alive_poll_seconds]]
                       /\ ipc' = logged
                       /\ next_id' = next_id + 1
                  [] hook_event = "Notification" ->
                       /\ hook' = [hook EXCEPT ![p] = Returned(h, "pass", <<>>)]
                       /\ ipc' = logged
                       /\ UNCHANGED next_id
                  [] OTHER ->
                       /\ hook' = [hook EXCEPT ![p] = Returned(h, "pass", <<>>)]
                       /\ ipc' = dirs
                       /\ UNCHANGED next_id
        /\ UNCHANGED <<used, now, state_json, lock, bd, tg>>

\* a call made with a configuration that has no auto_approve_paths and a tool
\* input that has no path
HookStart(p, session_id, hook_event, tool_name, stop_hook_active) ==
    HookCall(p, session_id, hook_event, tool_name, NoToolInput, <<>>, stop_hook_active)

\* a read of the response file that leaves the file where it is
remove_response_not(box, event_id) == box

\* _poll_response: os.remove(response_path) once the file has been loaded
remove_response(box, event_id) == [box EXCEPT !.responses[event_id] = NoResponse]

\* the checks of a permission pass that look for the response file first
permission_pass_response_first(box, event_id) ==
    IF box.responses[event_id].present THEN "response"
    ELSE IF box.force_clear THEN "force_clear"
    ELSE "sleep"

\* _poll_response's checks on one pass, in their order
permission_pass(box, event_id) ==
    IF box.force_clear THEN "force_clear"
    ELSE IF box.responses[event_id].present THEN "response"
    ELSE "sleep"

\* one pass of _poll_response's loop, and cmd_hook's use of what it returns:
\* the deadline, then the force marker, then the response file, else sleep
PollResponse(p) ==
    LET h == hook[p]
        box == ipc[h.dir]
        response == box.responses[h.event_id]
        pass == permission_pass(box, h.event_id)
    IN  /\ h.pc = "poll_response" /\ ~h.asleep
        /\ IF now >= h.deadline
           THEN /\ hook' = [hook EXCEPT ![p] =
                              Returned(h, "deny", <<"Telegram approval timed out">>)]
                /\ UNCHANGED ipc
           ELSE CASE pass = "force_clear" ->
                       /\ hook' = [hook EXCEPT ![p] = Returned(h, "allow", <<>>)]
                       /\ ipc' = [ipc EXCEPT ![h.dir].force_clear = FALSE]
                  [] pass = "response" ->
                       /\ hook' = [hook EXCEPT ![p] =
                                     IF response.decision = "allow"
                                     THEN Returned(h, "allow", <<>>)
                                     ELSE Returned(h, "deny",
                                                   IF response.message # <<>>
                                                   THEN response.message
                                                   ELSE <<"Denied via Telegram">>)]
                       /\ ipc' = [ipc EXCEPT ![h.dir] = remove_response(@, h.event_id)]
                  [] OTHER ->
                       /\ hook' = [hook EXCEPT ![p].asleep = TRUE]
                       /\ UNCHANGED ipc
        /\ UNCHANGED <<used, now, state_json, lock, next_id, bd, tg>>

\* the checks of a stop pass that never look for the kill marker
stop_pass_no_kill(box, event_id) ==
    IF box.force_clear THEN "force_clear"
    ELSE IF box.responses[event_id].present THEN "response"
    ELSE "sleep"

\* the checks of a stop pass that take the queue file for the force marker
stop_pass_any_file(box, event_id) ==
    IF box.kill # "" THEN "kill"
    ELSE IF box.force_clear \/ box.queued.present THEN "force_clear"
    ELSE IF box.responses[event_id].present THEN "response"
    ELSE "sleep"

\* _poll_response_or_kill's checks on one pass, in their order
stop_pass(box, event_id) ==
    IF box.kill # "" THEN "kill"
    ELSE IF box.force_clear THEN "force_clear"
    ELSE IF box.responses[event_id].present THEN "response"
    ELSE "sleep"

\* the keep_alive event of a stop call that waits for event_id
KeepAlive(event_id, t) ==
    [Event(0, "keep_alive", 0, t) EXCEPT !.original_event_id = event_id]

\* a keep-alive round that appends nothing
append_keep_alive_not(box, event_id, t) == box

\* cmd_hook's keep-alive: the event appended to events.jsonl when
\* _poll_response_or_kill has returned None
append_keep_alive(box, event_id, t) ==
    [box EXCEPT !.events = Append(@, KeepAlive(event_id, t))]

\* one pass of the Stop branch's keep-alive loop. A poll that has run out
\* appends a keep_alive event and starts the next poll, whose first pass is
\* this same pass (with the mailbox gone the append fails and the call dies).
\* Then the checks of _poll_response_or_kill. A response without an
\* "instruction" key starts the next poll as well.
PollResponseOrKill(p) ==
    LET h == hook[p]
        expired == now >= h.deadline
        dirs == IF expired /\ ipc[h.dir].exists
                THEN [ipc EXCEPT ![h.dir] = append_keep_alive(@, h.event_id, now)] ELSE ipc
        h1 == IF expired THEN [h EXCEPT !.deadline = now + keep_alive_poll_seconds] ELSE h
        box == dirs[h.dir]
        response == box.responses[h.event_id]
        pass == stop_pass(box, h.event_id)
    IN  /\ h.pc = "poll_response_or_kill" /\ ~h.asleep
        /\ IF expired /\ ~ipc[h.dir].exists
           THEN /\ hook' = [hook EXCEPT ![p] = Returned(h, "crash", <<>>)]
                /\ UNCHANGED ipc
           ELSE CASE pass = "kill" ->
                       /\ hook' = [hook EXCEPT ![p] = Returned(h1, "killed", <<>>)]
                       /\ ipc' = dirs
                  [] pass = "force_clear" ->
                       /\ hook' = [hook EXCEPT ![p] = Returned(h1, "block", <<"/clear">>)]
                       /\ ipc' = [dirs EXCEPT ![h.dir].force_clear = FALSE,
                                              ![h.dir].delivered = @ \cup {"/clear"}]
                  [] pass = "response" /\ response.has_instruction
                                       /\ response.instruction # <<>> ->
                       /\ hook' = [hook EXCEPT ![p] =
                                     [Returned(h1, "block", response.instruction)
                                         EXCEPT !.qlog = response.qlog]]
                       /\ ipc' = [dirs EXCEPT ![h.dir].responses[h.event_id] = NoResponse,
                                              ![h.dir].delivered =
                                                  @ \cup Words(response.instruction)]
                  [] pass = "response" /\ response.has_instruction
                                       /\ response.instruction = <<>> ->
                       /\ hook' = [hook EXCEPT ![p] = Returned(h1, "stop", <<>>)]
                       /\ ipc' = [dirs EXCEPT ![h.dir].responses[h.event_id] = NoResponse]
                  [] pass = "response" /\ ~response.has_instruction ->
                       /\ hook' = [hook EXCEPT ![p] =
                                     [h1 EXCEPT !.deadline = now + keep_alive_poll_seconds,
                                                !.asleep = TRUE]]
                       /\ ipc' = [dirs EXCEPT ![h.dir].responses[h.event_id] = NoResponse]
                  [] OTHER ->
                       /\ hook' = [hook EXCEPT ![p] = [h1 EXCEPT !.asleep = TRUE]]
                       /\ ipc' = dirs
        /\ UNCHANGED <<used, now, state_json, lock, next_id, bd, tg>>

\* the clock: a polling interval passes once every waiting adapter has made
\* its pass and sleeps
Tick ==
    /\ now < MaxTime
    /\ \A p \in Procs : hook[p].pc \in {"poll_response", "poll_response_or_kill"} => hook[p].asleep
    /\ now' = now + 1
    /\ hook' = [p \in Procs |-> [hook[p] EXCEPT !.asleep = FALSE]]
    /\ UNCHANGED <<used, state_json, lock, ipc, next_id, bd, tg>>

Init ==
    /\ now = 1
    /\ state_json = NoStateFile
    /\ lock = NoLock
    /\ ipc = [s \in Sessions |-> NoDir]
    /\ next_id = 1
    /\ bd = NoDaemon
    /\ tg = NewChat
    /\ hook = [p \in Procs |-> NoHook]
    /\ used = [cmds |-> 0, updates |-> 0]

\* ------------------------------------------------------------ specifications
\* The registry: sessions are activated and deactivated over max_slots slots
\* (s3 in its own project or in s1's), the daemon runs its loop, and the
\* operator ends sessions with /end.
Nets == {"ok", "fail"}

Threads == 0..MaxThreads

\* what the operator can send: a tap on a button the daemon has shown
Taps == {CallbackQuery(b) : b \in tg.buttons}

Activations == {<<"s1", "p1">>, <<"s2", "p2">>, <<"s3", "p3">>, <<"s3", "p1">>}

NextReg ==
    \/ \E a \in Activations : used.cmds < RegCmds /\ ActivateBegin(a[1], a[2], "")
    \/ ActivateEnd
    \/ \E s \in Sessions : used.cmds < RegCmds /\ DeactivateBegin(s)
    \/ DeactivateEnd
    \/ DaemonHeartbeat
    \/ DaemonHeartbeatSave
    \/ \E net \in Nets : DaemonScanEvents(net)
    \/ \E th \in Threads :
          used.updates < RegUpdates /\ DaemonHandleUpdate(Message(<<"/end">>, th), "ok")
    \/ DaemonLoopEnd
    \/ now < RegTime /\ Tick

SpecReg == Init /\ [][NextReg]_vars

\* The state once session s1 has been activated in project p1: the slot is
\* claimed and saved, the daemon has started, written its first heartbeat,
\* created the session's topic on reading the activation event, and waits
\* for chat updates.
ActivatedWorld ==
    LET r == do_activate(HookDefaultState, [s \in Sessions |-> NoDir], NoDaemon, 1,
                         "s1", "p1", "")
        w == [ipc |-> r.ipc, bd |-> [NewDaemon EXCEPT !.last_heartbeat = 1],
              sj |-> save_state(r.st), tg |-> NewChat]
    IN  scan_events(w, get_active_sessions(bridge_load_state(w.sj)), "ok", 1)

InitActive ==
    /\ now = 1
    /\ state_json = ActivatedWorld.sj
    /\ lock = NoLock
    /\ ipc = ActivatedWorld.ipc
    /\ next_id = 1
    /\ bd = [ActivatedWorld.bd EXCEPT !.pc = "poll"]
    /\ tg = ActivatedWorld.tg
    /\ hook = [p \in Procs |-> NoHook]
    /\ used = [cmds |-> 1, updates |-> 0]

\* The stop protocol: session s1 is active (and may be deactivated), its
\* agent stops and the adapter waits for the operator, who replies in the
\* session's topic or the main chat, types /clear, /compact or /end, or taps
\* a button the daemon has shown. The agent makes one Stop call at a time.
Replies == {<<"A">>, <<" ", "B", " ">>}

Commands == {<<"/clear">>, <<"/compact">>, <<"/end">>}

NextStop ==
    \/ used.cmds < StopCmds /\ DeactivateBegin("s1")
    \/ DeactivateEnd
    \/ DaemonHeartbeat
    \/ DaemonHeartbeatSave
    \/ \E net \in Nets : DaemonScanEvents(net)
    \/ \E text \in Replies \cup Commands, th \in 0..1 :
          used.updates < StopUpdates /\ DaemonHandleUpdate(Message(text, th), "ok")
    \/ \E u \in Taps : used.updates < StopUpdates /\ DaemonHandleUpdate(u, "ok")
    \/ DaemonLoopEnd
    \/ \E active \in BOOLEAN :
          next_id <= StopIds /\ HookStart("h1", "s1", "Stop", "", active)
    \/ PollResponseOrKill("h1")
    \/ now < StopTime /\ Tick

SpecStop == InitActive /\ [][NextStop]_vars

\* a new adapter call takes the first process that is not waiting
FirstFree(p) ==
    /\ hook[p].pc \in {"idle", "done"}
    /\ p = "h1" \/ hook["h1"].pc \notin {"idle", "done"}

\* The permission protocol: session s1 is active, its agent asks for
\* permissions (up to two calls at a time, for a tool on the allow-list or
\* not), and the operator taps the buttons the daemon shows or types /clear.
Tools == {"Bash", "Read"}

NextPerm ==
    \/ DaemonHeartbeat
    \/ DaemonHeartbeatSave
    \/ \E net \in Nets : DaemonScanEvents(net)
    \/ \E u \in Taps : used.updates < PermUpdates /\ DaemonHandleUpdate(u, "ok")
    \/ used.updates < PermUpdates /\ DaemonHandleUpdate(Message(<<"/clear">>, 1), "ok")
    \/ DaemonLoopEnd
    \/ \E p \in Procs, tool \in Tools :
          FirstFree(p) /\ HookStart(p, "s1", "PermissionRequest", tool, FALSE)
    \/ \E p \in Procs : PollResponse(p)
    \/ now < PermTime /\ Tick

SpecPerm == InitActive /\ [][NextPerm]_vars

\* The trust protocol: session s1 is active, its agent asks for one permission
\* at a time, and the operator taps the buttons the daemon shows or types
\* /clear; the chat platform answers every request.
NextTrust ==
    \/ DaemonHeartbeat
    \/ DaemonHeartbeatSave
    \/ DaemonScanEvents("ok")
    \/ \E u \in Taps : used.updates < TrustUpdates /\ DaemonHandleUpdate(u, "ok")
    \/ used.updates < TrustUpdates /\ DaemonHandleUpdate(Message(<<"/clear">>, 1), "ok")
    \/ DaemonLoopEnd
    \/ HookStart("h1", "s1", "PermissionRequest", "Bash", FALSE)
    \/ PollResponse("h1")
    \/ now < TrustTime /\ Tick

SpecTrust == InitActive /\ [][NextTrust]_vars

\* The state once session s1 has been activated while the chat platform could
\* not be reached: as ActivatedWorld, but no topic was created and the
\* session has no thread.
ActivatedWorldNoTopic ==
    LET r == do_activate(HookDefaultState, [s \in Sessions |-> NoDir], NoDaemon, 1,
                         "s1", "p1", "")
        w == [ipc |-> r.ipc, bd |-> [NewDaemon EXCEPT !.last_heartbeat = 1],
              sj |-> save_state(r.st), tg |-> NewChat]
    IN  scan_events(w, get_active_sessions(bridge_load_state(w.sj)), "fail", 1)

InitNoTopic ==
    /\ now = 1
    /\ state_json = ActivatedWorldNoTopic.sj
    /\ lock = NoLock
    /\ ipc = ActivatedWorldNoTopic.ipc
    /\ next_id = 1
    /\ bd = [ActivatedWorldNoTopic.bd EXCEPT !.pc = "poll"]
    /\ tg = ActivatedWorldNoTopic.tg
    /\ hook = [p \in Procs |-> NoHook]
    /\ used = [cmds |-> 1, updates |-> 0]

\* The staleness protocol: session s1 is active, with a topic or without one,
\* its agent asks for one permission at a time and the operator answers late
\* or never, or ends the session with /end, while the daemon's loop keeps
\* running.
NextStale ==
    \/ DaemonHeartbeat
    \/ DaemonHeartbeatSave
    \/ \E net \in Nets : DaemonScanEvents(net)
    \/ \E u \in Taps : used.updates < StaleUpdates /\ DaemonHandleUpdate(u, "ok")
    \/ used.updates < StaleUpdates /\ DaemonHandleUpdate(Message(<<"/end">>, 1), "ok")
    \/ DaemonLoopEnd
    \/ HookStart("h1", "s1", "PermissionRequest", "Bash", FALSE)
    \/ PollResponse("h1")
    \/ now < StaleTime /\ Tick

SpecStale == (InitActive \/ InitNoTopic) /\ [][NextStale]_vars

\* What happens to the bridge from outside, the conditions the liveness check
\* of is_slot_actually_active looks for: a mailbox directory is deleted, a
\* mailbox loses its meta.json, or the daemon process dies.
RemoveMailbox(s) ==
    /\ ipc[s].exists
    /\ ipc' = [ipc EXCEPT ![s] = NoDir]
    /\ used' = [used EXCEPT !.updates = @ + 1]
    /\ UNCHANGED <<now, state_json, lock, next_id, bd, tg, hook>>

RemoveMeta(s) ==
    /\ ipc[s].exists /\ ipc[s].meta
    /\ ipc' = [ipc EXCEPT ![s].meta = FALSE]
    /\ used' = [used EXCEPT !.updates = @ + 1]
    /\ UNCHANGED <<now, state_json, lock, next_id, bd, tg, hook>>

DaemonDies ==
    /\ bd.running
    /\ bd' = NoDaemon
    /\ used' = [used EXCEPT !.updates = @ + 1]
    /\ UNCHANGED <<now, state_json, lock, ipc, next_id, tg, hook>>

\* The self-healing protocol: sessions are activated over max_slots slots
\* while mailboxes are damaged, the daemon dies or the operator ends the
\* session of the first topic, with the daemon's loop running in between.
NextHeal ==
    \/ \E a \in Activations : used.cmds < HealCmds /\ ActivateBegin(a[1], a[2], "")
    \/ ActivateEnd
    \/ \E s \in Sessions : used.updates < HealFaults /\ RemoveMailbox(s)
    \/ \E s \in Sessions : used.updates < HealFaults /\ RemoveMeta(s)
    \/ used.updates < HealFaults /\ DaemonDies
    \/ used.updates < HealFaults /\ DaemonHandleUpdate(Message(<<"/end">>, 1), "ok")
    \/ DaemonHeartbeat
    \/ DaemonHeartbeatSave
    \/ DaemonScanEvents("ok")
    \/ DaemonLoopEnd
    \/ now < HealTime /\ Tick

SpecHeal == Init /\ [][NextHeal]_vars

\* Reply routing: sessions s1 and s2 are activated and deactivated, the
\* daemon creates their topics when the chat platform can be reached, and the
\* operator writes replies in a topic, in the main chat or in a thread of no
\* session.
RouteCmds == 3

RouteUpdates == 2

RouteTime == 2

NextRoute ==
    \/ \E a \in {<<"s1", "p1">>, <<"s2", "p2">>} :
          used.cmds < RouteCmds /\ ActivateBegin(a[1], a[2], "")
    \/ ActivateEnd
    \/ \E s \in {"s1", "s2"} : used.cmds < RouteCmds /\ DeactivateBegin(s)
    \/ DeactivateEnd
    \/ DaemonHeartbeat
    \/ DaemonHeartbeatSave
    \/ \E net \in Nets : DaemonScanEvents(net)
    \/ \E text \in Replies, th \in Threads :
          used.updates < RouteUpdates /\ DaemonHandleUpdate(Message(text, th), "ok")
    \/ DaemonLoopEnd
    \/ now < RouteTime /\ Tick

SpecRoute == Init /\ [][NextRoute]_vars

\* the operator deletes a session's forum topic in the chat client
DeleteTopic(th) ==
    /\ th \in tg.topics
    /\ tg' = [tg EXCEPT !.topics = @ \ {th}]
    /\ used' = [used EXCEPT !.updates = @ + 1]
    /\ UNCHANGED <<now, state_json, lock, ipc, next_id, bd, hook>>

\* The zombie reap: session s1 is active and the chat platform can be
\* reached, its agent stops or asks for a permission, one call at a time, and
\* the operator deletes the session's topic at some moment and answers
\* nothing.
ZombieDeletes == 1

ZombieIds == 2

ZombieTime == 6

NextZombie ==
    \/ DaemonHeartbeat
    \/ DaemonHeartbeatSave
    \/ DaemonScanEvents("ok")
    \/ used.updates < ZombieDeletes /\ DeleteTopic(1)
    \/ DaemonLoopEnd
    \/ next_id <= ZombieIds /\ HookStart("h1", "s1", "Stop", "", FALSE)
    \/ next_id <= ZombieIds /\ HookStart("h1", "s1", "PermissionRequest", "Bash", FALSE)
    \/ PollResponseOrKill("h1")
    \/ PollResponse("h1")
    \/ now < ZombieTime /\ Tick

SpecZombie == InitActive /\ [][NextZombie]_vars

\* a line that is not the line of a well-formed event is appended to a
\* session's event log: text json.loads rejects, or a permission request
\* that has no id
MalformedKinds == {"unparseable", "permission_request"}

AppendMalformed(s, kind) ==
    /\ ipc[s].exists
    /\ ipc' = [ipc EXCEPT ![s].events = Append(@, Event(0, kind, 0, now))]
    /\ used' = [used EXCEPT !.updates = @ + 1]
    /\ UNCHANGED <<now, state_json, lock, next_id, bd, tg, hook>>

\* Malformed mailbox data: session s1 is active, its agent asks for one
\* permission at a time, and malformed lines turn up in its event log.
MalformedLines == 2

MalformedIds == 2

MalformedTime == 4

NextMalformed ==
    \/ DaemonHeartbeat
    \/ DaemonHeartbeatSave
    \/ DaemonScanEvents("ok")
    \/ \E kind \in MalformedKinds :
          used.updates < MalformedLines /\ AppendMalformed("s1", kind)
    \/ DaemonLoopEnd
    \/ next_id <= MalformedIds /\ HookStart("h1", "s1", "PermissionRequest", "Bash", FALSE)
    \/ PollResponse("h1")
    \/ now < MalformedTime /\ Tick

SpecMalformed == InitActive /\ [][NextMalformed]_vars

\* cmd_hook's first contact taken step by step, as concurrent hook processes
\* run it: _find_unbound_slots finds the only mailbox without a bound_session
\* file ...
HookFindUnbound(p, session_id) ==
    LET bound == {d \in Sessions : ipc[d].exists /\ ipc[d].bound = session_id}
        unbound == {d \in Sessions : ipc[d].exists /\ ipc[d].bound = ""}
    IN  /\ hook[p].pc \in {"idle", "done"}
        /\ ~ipc[session_id].exists /\ bound = {} /\ Cardinality(unbound) = 1
        /\ hook' = [hook EXCEPT ![p] = [NoHook EXCEPT !.pc = "bind", !.session_id = session_id,
                                                      !.dir = CHOOSE d \in unbound : TRUE,
                                                      !.hook_event = "Notification"]]
        /\ UNCHANGED <<used, now, state_json, lock, ipc, next_id, bd, tg>>

\* ... and _bind_session writes the caller's id into it (open "w"), after
\* which the call, a notification, appends its event and passes
HookBindSession(p) ==
    LET h == hook[p]
    IN  /\ h.pc = "bind" /\ ipc[h.dir].exists
        /\ ipc' = [ipc EXCEPT ![h.dir].bound = h.session_id,
                              ![h.dir].events = Append(@, Event(0, "notification", 0, now))]
        /\ hook' = [hook EXCEPT ![p] = Returned(h, "pass", <<>>)]
        /\ UNCHANGED <<used, now, state_json, lock, next_id, bd, tg>>

\* First contact: session s1 is active and its agent runs under other
\* session ids, whose hook processes run concurrently and send notifications.
BindEvents == 4

NextBind ==
    \/ \E p \in Procs, sid \in {"s2", "s3"} :
          Len(ipc["s1"].events) < BindEvents /\ HookFindUnbound(p, sid)
    \/ \E p \in Procs : HookBindSession(p)
    \/ \E p \in Procs, sid \in Sessions :
          /\ Len(ipc["s1"].events) < BindEvents
          /\ HookStart(p, sid, "Notification", "", FALSE)

SpecBind == InitActive /\ [][NextBind]_vars

\* The allow-list: session s1 is active and its agent asks for permissions,
\* one at a time, for a listed and an unlisted tool, with tool inputs that
\* carry no path, a path under one key or paths under two keys, under
\* configurations with no, one or two path patterns; the operator taps the
\* buttons the daemon shows.
PathRules == {<<>>, << <<"a", "*">> >>, << <<"?">> >>, << <<"b">>, <<"a", "?", "b">> >>}
ToolInputs ==
    {NoToolInput,
     [NoToolInput EXCEPT !.file_path = <<"a", "/", "b">>],
     [NoToolInput EXCEPT !.file_path = <<"b">>],
     [NoToolInput EXCEPT !.path = <<"a">>],
     [NoToolInput EXCEPT !.notebook_path = <<"b", "a">>],
     [NoToolInput EXCEPT !.file_path = <<"b">>, !.path = <<"a">>]}
ApproveIds == 1
ApproveUpdates == 1
ApproveTime == 4

NextApprove ==
    \/ DaemonHeartbeat
    \/ DaemonHeartbeatSave
    \/ DaemonScanEvents("ok")
    \/ \E u \in Taps : used.updates < ApproveUpdates /\ DaemonHandleUpdate(u, "ok")
    \/ DaemonLoopEnd
    \/ \E tool \in Tools, tool_input \in ToolInputs, auto_paths \in PathRules :
          /\ next_id <= ApproveIds
          /\ HookCall("h1", "s1", "PermissionRequest", tool, tool_input, auto_paths, FALSE)
    \/ PollResponse("h1")
    \/ now < ApproveTime /\ Tick

SpecApprove == InitActive /\ [][NextApprove]_vars

\* Resolution: session s1 is active, its agent asks for permissions (up to two
\* calls at a time) or stops, and the operator taps the buttons the daemon has
\* shown, old ones included, replies, or types /clear or /compact.
ResolveIds == 2
ResolveUpdates == 3
ResolveTime == 4

NextResolve ==
    \/ DaemonHeartbeat
    \/ DaemonHeartbeatSave
    \/ DaemonScanEvents("ok")
    \/ \E text \in {<<"A">>, <<"/clear">>, <<"/compact">>} :
          used.updates < ResolveUpdates /\ DaemonHandleUpdate(Message(text, 1), "ok")
    \/ \E u \in Taps : used.updates < ResolveUpdates /\ DaemonHandleUpdate(u, "ok")
    \/ DaemonLoopEnd
    \/ \E p \in Procs :
          /\ next_id <= ResolveIds /\ FirstFree(p)
          /\ HookStart(p, "s1", "PermissionRequest", "Bash", FALSE)
    \/ next_id <= ResolveIds /\ HookStart("h1", "s1", "Stop", "", FALSE)
    \/ \E p \in Procs : PollResponse(p)
    \/ PollResponseOrKill("h1")
    \/ now < ResolveTime /\ Tick

SpecResolve == InitActive /\ [][NextResolve]_vars

\* Re-activation: session s1 is active, s2 is activated beside it, and s1 is
\* deactivated and activated again while the same daemon runs.
ReactivateCmds == 4
ReactivateTime == 4

NextReactivate ==
    \/ \E a \in {<<"s1", "p1">>, <<"s2", "p2">>} :
          used.cmds < ReactivateCmds /\ ActivateBegin(a[1], a[2], "")
    \/ ActivateEnd
    \/ used.cmds < ReactivateCmds /\ DeactivateBegin("s1")
    \/ DeactivateEnd
    \/ DaemonHeartbeat
    \/ DaemonHeartbeatSave
    \/ DaemonScanEvents("ok")
    \/ DaemonLoopEnd
    \/ now < ReactivateTime /\ Tick

SpecReactivate == InitActive /\ [][NextReactivate]_vars

\* ------------------------------------------------------------------- claims
\* the slots of the registry as a reader of state.json finds them
Registry == hook_load_state(state_json).slots

\* C1: the registry never holds more than max_slots occupied slots, every
\* slot number lies in 1..max_slots and is used once, and no two slots carry
\* the same session_id, whatever activations, deactivations and daemon writes
\* interleave.
C1_SlotsBoundedAndUnique ==
    /\ Len(Registry) <= max_slots
    /\ \A i \in 1..Len(Registry) : Registry[i].slot \in 1..max_slots
    /\ \A i, j \in 1..Len(Registry) :
          i # j => /\ Registry[i].slot # Registry[j].slot
                   /\ Registry[i].session_id # Registry[j].session_id

\* C1 witness: with every slot occupied, an activation of one more session
\* has been refused
C1_Witness ==
    /\ lock.held /\ lock.op = "activate" /\ lock.outcome = "full"
    /\ Len(Registry) = max_slots

\* C2: the daemon's heartbeat write does not lose a completed registry
\* mutation: the step that saves the heartbeat leaves the registry's slots
\* as they were in state.json just before it.
C2_HeartbeatKeepsSlots ==
    [][(bd.pc = "hb_save" /\ bd'.pc = "scan") => Registry' = Registry]_vars

\* an adapter call waiting in the Stop branch's loop
StopBlocked(p) == hook[p].pc = "poll_response_or_kill"

\* C3: when an adapter call returns a decision to the host, no response file
\* for the call's event id is left in the mailbox.
C3_NoResponseLeftOnReturn ==
    [][\A p \in Procs :
          (/\ hook[p].pc \in {"poll_response", "poll_response_or_kill"}
           /\ hook'[p].pc = "done"
           /\ hook'[p].result \in {"allow", "deny", "block", "stop"})
          => ~ipc'[hook[p].dir].responses[hook[p].event_id].present]_vars

\* C5: no reply is lost: in a mailbox that exists and has not been killed,
\* every word of every reply the daemon has routed to it has been returned by
\* an adapter call, or is in the queue file, or is in the response file of a
\* stop call that is still waiting.
C5_NoReplyLost ==
    \A s \in Sessions :
       (ipc[s].exists /\ ipc[s].kill = "") =>
          \A word \in ipc[s].accepted :
             \/ word \in ipc[s].delivered
             \/ word \in Words(ipc[s].queued.instruction)
             \/ \E p \in Procs :
                   /\ StopBlocked(p) /\ hook[p].dir = s
                   /\ ipc[s].responses[hook[p].event_id].present
                   /\ word \in Words(ipc[s].responses[hook[p].event_id].instruction)

\* texts joined by single blanks
RECURSIVE JoinWithBlank(_)
JoinWithBlank(texts) ==
    IF texts = <<>> THEN <<>>
    ELSE IF Len(texts) = 1 THEN texts[1]
    ELSE texts[1] \o <<" ">> \o JoinWithBlank(Tail(texts))

\* C6: the queue file holds the texts queued since it was created, in their
\* order and joined by single blanks, and a stop call answered from the queue
\* returns exactly that text: A then B gives "A B".
C6_QueueMerge ==
    /\ \A s \in Sessions :
          ipc[s].queued.present => ipc[s].queued.instruction = JoinWithBlank(ipc[s].queued.qlog)
    /\ \A p \in Procs :
          (hook[p].pc = "done" /\ hook[p].result = "block" /\ hook[p].qlog # <<>>)
          => hook[p].reason = JoinWithBlank(hook[p].qlog)

\* C6 witness: a stop call has returned "A B", put together from A and B
C6_Witness ==
    \E p \in Procs :
       /\ hook[p].pc = "done" /\ hook[p].result = "block"
       /\ hook[p].qlog = << <<"A">>, <<"B">> >>
       /\ hook[p].reason = <<"A", " ", "B">>

\* C7: a waiting stop call that makes a pass with the kill marker in its
\* mailbox returns "killed" on that pass, whatever else is in the mailbox and
\* whether or not its poll has run out; and a stop call sleeps beside the
\* marker only in the polling interval in which the marker was written.
C7_KillEndsStop ==
    /\ [](\A p \in Procs :
             (StopBlocked(p) /\ hook[p].asleep /\ ipc[hook[p].dir].kill # "")
             => ipc[hook[p].dir].killed_at = now)
    /\ [][\A p \in Procs :
             (/\ StopBlocked(p) /\ ipc[hook[p].dir].kill # ""
              /\ hook'[p] # hook[p] /\ now' = now)
             => (hook'[p].pc = "done" /\ hook'[p].result = "killed")]_vars

\* C7 witness: a stop call has returned "killed" after a keep-alive round
C7_Witness ==
    \E p \in Procs :
       /\ hook[p].pc = "done" /\ hook[p].result = "killed"
       /\ \E i \in 1..Len(ipc[hook[p].dir].events) :
             /\ ipc[hook[p].dir].events[i].type = "keep_alive"
             /\ ipc[hook[p].dir].events[i].original_event_id = hook[p].event_id

\* C8 as amended: a waiting stop call ends in one of five ways only, tried in
\* this order: the mailbox is gone when a keep-alive is due (the call dies);
\* the kill marker; the force marker (the call returns "/clear" and removes
\* the marker); a response with a non-empty instruction (returned); a
\* response with an empty instruction (the stop is accepted).
C8_StopExits ==
    [][\A p \in Procs :
          (StopBlocked(p) /\ hook'[p].pc = "done") =>
             LET box == ipc[hook[p].dir]
                 response == box.responses[hook[p].event_id]
                 out == hook'[p]
             IN  \/ /\ ~box.exists /\ now >= hook[p].deadline
                    /\ out.result = "crash"
                 \/ /\ box.kill # ""
                    /\ out.result = "killed"
                 \/ /\ box.kill = "" /\ box.force_clear
                    /\ out.result = "block" /\ out.reason = <<"/clear">>
                    /\ ~ipc'[hook[p].dir].force_clear
                 \/ /\ box.kill = "" /\ ~box.force_clear
                    /\ response.present /\ response.has_instruction
                    /\ response.instruction # <<>>
                    /\ out.result = "block" /\ out.reason = response.instruction
                 \/ /\ box.kill = "" /\ ~box.force_clear
                    /\ response.present /\ response.has_instruction
                    /\ response.instruction = <<>>
                    /\ out.result = "stop"]_vars

\* C8 witness: a stop call has returned "/clear" from the force marker alone
C8_Witness ==
    \E p \in Procs :
       /\ hook[p].pc = "done" /\ hook[p].hook_event = "Stop"
       /\ hook[p].result = "block" /\ hook[p].reason = <<"/clear">>
       /\ hook[p].qlog = <<>>

\* C8 as stated: a waiting stop call ends only on a response with a non-empty
\* instruction, on a response with an empty instruction, or on the kill
\* marker.
C8_OnlyThreeExits ==
    [][\A p \in Procs :
          (StopBlocked(p) /\ hook'[p].pc = "done") =>
             LET box == ipc[hook[p].dir]
                 response == box.responses[hook[p].event_id]
                 out == hook'[p]
             IN  \/ box.kill # "" /\ out.result = "killed"
                 \/ /\ response.present /\ response.has_instruction
                    /\ response.instruction # <<>>
                    /\ out.result = "block" /\ out.reason = response.instruction
                 \/ /\ response.present /\ response.has_instruction
                    /\ response.instruction = <<>>
                    /\ out.result = "stop"]_vars

IsPermissionRequest(e) == e.type = "permission_request"

\* the permission requests of a session's event log the daemon has not read
Unread(s) ==
    SelectSeq(SubSeq(ipc[s].events, bd.event_positions[s] + 1, Len(ipc[s].events)),
              IsPermissionRequest)

\* the time a permission request was written to its session's event log
ArrivalOf(s, id) ==
    LET log == ipc[s].events
    IN  log[CHOOSE i \in 1..Len(log) : log[i].id = id /\ IsPermissionRequest(log[i])].timestamp

\* C9 as amended: the window is the daemon's, not the requests'. A batch opens
\* when the daemon reads a request of a session without one, with the
\* daemon's clock as its start and every unread request of the session in it;
\* while open it keeps its start and takes the requests the daemon reads; it
\* is flushed by the first flush at least W after its start, which follows a
\* scan, and its prompt (one for a single request, a combined one otherwise)
\* is for the requests read up to then, whenever they were written.
C9_BatchWindow ==
    [][\A s \in Sessions :
          LET b == bd.permission_batch[s]
              after == bd'.permission_batch[s]
              ids == EventIds(b.events \o Unread(s))
          IN  /\ (~b.present /\ after.present) =>
                    after.timer_start = now /\ after.events = Unread(s)
              /\ (b.present /\ after.present) =>
                    /\ after.timer_start = b.timer_start
                    /\ after.events \in {b.events, b.events \o Unread(s)}
              /\ (b.present /\ ~after.present) =>
                    /\ now - b.timer_start >= permission_batch_window_seconds
                    /\ \/ bd'.pending_events = bd.pending_events
                       \/ /\ Len(ids) = 1
                          /\ bd'.pending_events =
                               [bd.pending_events EXCEPT ![ids[1]] =
                                   Pending(s, "permission_request", <<>>, now)]
                       \/ /\ Len(ids) > 1
                          /\ bd'.pending_events =
                               [bd.pending_events EXCEPT ![MaxIds + ids[1]] =
                                   Pending(s, "permission_batch", ids, now)]]_vars

\* C9 witness: a combined prompt for two requests written at the same time
C9_Witness ==
    \E i \in PendingIds :
       LET pending == bd.pending_events[i]
       IN  /\ pending.present /\ pending.type = "permission_batch"
           /\ Len(pending.event_ids) = 2
           /\ ArrivalOf(pending.session_id, pending.event_ids[2])
                = ArrivalOf(pending.session_id, pending.event_ids[1])

\* C9 as stated: a request written more than W after the first request of a
\* batch is not in that batch's prompt.
C9_LateRequestNewBatch ==
    [][\A i \in PendingIds :
          LET pending == bd'.pending_events[i]
          IN  (~bd.pending_events[i].present /\ pending.present
                  /\ pending.type = "permission_batch") =>
                 \A j \in 1..Len(pending.event_ids) :
                    ArrivalOf(pending.session_id, pending.event_ids[j])
                      <= ArrivalOf(pending.session_id, pending.event_ids[1])
                           + permission_batch_window_seconds]_vars

\* a request the daemon holds a prompt for: its own, or a combined one
HasPrompt(s, e) ==
    \E i \in PendingIds :
       LET pending == bd.pending_events[i]
       IN  /\ pending.present /\ pending.session_id = s
           /\ \/ pending.type = "permission_request" /\ i = e
              \/ pending.type = "permission_batch"
                   /\ \E j \in 1..Len(pending.event_ids) : pending.event_ids[j] = e

\* C10 as amended: reaching the threshold only offers trust. A session becomes
\* trusted only by a tap on a trust button the daemon has shown; the daemon
\* first shows that button when an approval brings the count to the threshold
\* or past it; a flushed batch of a trusted session is allowed without a
\* prompt, that of a session not trusted gets no response from the flush; and
\* an allow is written only for a trusted session or for a request that has a
\* prompt.
C10_TrustByTap ==
    [][\A s \in Sessions :
          LET b == bd.permission_batch[s]
              trust == Button("trust_session", 0, s)
          IN  /\ (~bd.trusted_sessions[s] /\ bd'.trusted_sessions[s]) =>
                    trust \in tg.buttons
              /\ (trust \notin tg.buttons /\ trust \in tg'.buttons) =>
                    bd'.approval_counts[s] >= session_trust_threshold
              /\ (b.present /\ ~bd'.permission_batch[s].present) =>
                    IF bd.trusted_sessions[s]
                    THEN /\ \A j \in 1..Len(b.events) :
                               ipc'[s].responses[b.events[j].id]
                                  = DecisionResponse("allow", <<>>)
                         /\ bd'.pending_events = bd.pending_events
                         /\ tg'.buttons = tg.buttons
                    ELSE ipc'[s].responses = ipc[s].responses
              /\ \A e \in Ids :
                    (/\ ~ipc[s].responses[e].present
                     /\ ipc'[s].responses[e].present
                     /\ ipc'[s].responses[e].decision = "allow") =>
                        bd.trusted_sessions[s] \/ HasPrompt(s, e)]_vars

\* a request the chat has a permission prompt for
Prompted(e) == e \in tg.prompted

\* C10 witness: after approvals up to the threshold and the trust tap, a
\* request of the trusted session has its allow with no prompt shown for it
C10_Witness ==
    \E s \in Sessions, e \in Ids :
       /\ bd.trusted_sessions[s]
       /\ bd.approval_counts[s] >= session_trust_threshold
       /\ ipc[s].responses[e].present /\ ipc[s].responses[e].decision = "allow"
       /\ ~Prompted(e)

\* C10 as stated: once the approvals of a session have reached the threshold,
\* its next permission request gets no prompt.
C10_AutoApproveAtThreshold ==
    [][\A i \in PendingIds :
          LET pending == bd'.pending_events[i]
          IN  (~bd.pending_events[i].present /\ pending.present
                  /\ pending.type \in {"permission_request", "permission_batch"}) =>
                 bd.approval_counts[pending.session_id] < session_trust_threshold]_vars

\* C11: while a session stays trusted the daemon makes no permission prompt
\* and no pending interaction for it, and a flush of its batch writes an allow
\* response for every request read for it; the trust ends only with a clear,
\* and a clear (the step that writes the force marker) leaves the session not
\* trusted with an approval count of 0, after which a flush writes no
\* response of its own.
C11_TrustedUntilClear ==
    [][\A s \in Sessions :
          LET b == bd.permission_batch[s]
              ids == EventIds(b.events \o Unread(s))
              flushed == b.present /\ ~bd'.permission_batch[s].present
          IN  /\ (bd.trusted_sessions[s] /\ bd'.trusted_sessions[s]) =>
                    /\ \A i \in PendingIds :
                          (~bd.pending_events[i].present /\ bd'.pending_events[i].present)
                          => bd'.pending_events[i].session_id # s
                    /\ tg'.prompted = tg.prompted
                    /\ flushed => \A j \in 1..Len(ids) :
                                     ipc'[s].responses[ids[j]] = DecisionResponse("allow", <<>>)
              /\ (bd.trusted_sessions[s] /\ ~bd'.trusted_sessions[s]) =>
                    /\ ipc'[s].force_clear
                    /\ bd'.approval_counts[s] = 0
              /\ (~ipc[s].force_clear /\ ipc'[s].force_clear) =>
                    /\ ~bd'.trusted_sessions[s]
                    /\ bd'.approval_counts[s] = 0
              /\ (~bd.trusted_sessions[s] /\ flushed) =>
                    ipc'[s].responses = ipc[s].responses]_vars

\* C11 witness: a request of a trusted session has had its allow with no
\* prompt, and a clear has since reset the trust and the approval count
C11_Witness ==
    \E s \in Sessions, e \in Ids :
       /\ ~bd.trusted_sessions[s] /\ bd.approval_counts[s] = 0
       /\ ipc[s].force_clear
       /\ ipc[s].responses[e].present /\ ipc[s].responses[e].decision = "allow"
       /\ e \notin tg.prompted

\* a pending interaction past the stale threshold
Stale(i) ==
    /\ bd.pending_events[i].present
    /\ now - bd.pending_events[i].created_at > stale_warning_seconds

\* C12 as amended: the warning about a pending interaction is delivered at
\* most once, however many stale checks pass: the daemon delivers it only in
\* the step in which it first marks the stale interaction as warned about,
\* only if the interaction's session has a topic, and never again once it is
\* marked (the marks last as long as the daemon process).
C12_StaleWarnedOnce ==
    /\ [](\A i \in PendingIds : tg.stale_warnings[i] <= 1)
    /\ [][\A i \in PendingIds :
             /\ (i \in bd.stale_warned /\ bd'.running) => i \in bd'.stale_warned
             /\ tg'.stale_warnings[i] # tg.stale_warnings[i] =>
                   /\ Stale(i)
                   /\ i \notin bd.stale_warned /\ i \in bd'.stale_warned
                   /\ bd.session_threads[bd.pending_events[i].session_id] # 0
                   /\ tg'.stale_warnings[i] = tg.stale_warnings[i] + 1]_vars

\* C12 witness: a stale interaction was warned about once, and stale checks
\* have run at a later time without a second warning
C12_Witness ==
    \E i \in PendingIds :
       /\ Stale(i) /\ tg.stale_warnings[i] = 1
       /\ now - bd.pending_events[i].created_at > stale_warning_seconds + 1
       /\ bd.pc = "poll" /\ bd.last_heartbeat = now

\* C12 as stated: every pending interaction the daemon has found stale has
\* had its warning exactly once.
C12_StaleWarnedExactlyOnce ==
    \A i \in PendingIds :
       (Stale(i) /\ i \in bd.stale_warned) => tg.stale_warnings[i] = 1

\* the slot entries of a registry state that fail the liveness check
Failing(st) ==
    {i \in 1..Len(st.slots) :
        is_slot_actually_active(st, st.slots[i], ipc, bd, now) # "active"}

\* C13: an activation that claims a slot, or finds its session already
\* active, first evicts every slot entry that fails the liveness check: no
\* other session's failing entry is in the state it saves, the state it saves
\* has at most max_slots entries with distinct slot numbers, and each of them
\* passes the liveness check; and an activation is refused for want of a slot
\* only when no entry fails the check.
C13_ActivationEvictsDeadSlots ==
    [][(~lock.held /\ lock'.held /\ lock'.op = "activate") =>
          LET st0 == hook_load_state(state_json)
              st == lock'.st
          IN  /\ lock'.outcome \in {"claimed", "already"} =>
                    /\ \A i \in Failing(st0) :
                          st0.slots[i].session_id # lock'.session_id
                          => st0.slots[i].session_id \notin SessionIds(st.slots)
                    /\ Len(st.slots) <= max_slots
                    /\ \A i, j \in 1..Len(st.slots) :
                          i # j => st.slots[i].slot # st.slots[j].slot
                    /\ \A j \in 1..Len(st.slots) :
                          is_slot_actually_active(st, st.slots[j], ipc', bd', now) = "active"
              /\ lock'.outcome = "full" =>
                    Failing(st0) = {} /\ Len(st0.slots) = max_slots
              /\ lock'.outcome \in {"claimed", "already", "full"}]_vars

\* C13 witness: with every slot of the registry taken and the mailbox of one
\* of them deleted from outside, an activation has evicted that entry and
\* claimed a slot
C13_Witness ==
    /\ lock.held /\ lock.op = "activate" /\ lock.outcome = "claimed"
    /\ Len(Registry) = max_slots
    /\ \E i \in 1..Len(Registry) :
          /\ Registry[i].session_id # lock.session_id
          /\ Registry[i].session_id \notin SessionIds(lock.st.slots)
          /\ ~ipc[Registry[i].session_id].exists

\* C14: a permission call that returns what a response file holds removes the
\* file in the step that reads it, and an absent response file appears only
\* by a step of the daemon, so that a later read for the same event id finds
\* no file until the daemon writes one again.
C14_ResponseReadOnce ==
    [][\A p \in Procs :
          LET h == hook[p]
              box == ipc[h.dir]
          IN  /\ (/\ h.pc = "poll_response" /\ hook'[p].pc = "done"
                  /\ now < h.deadline /\ ~box.force_clear) =>
                    /\ box.responses[h.event_id].present
                    /\ hook'[p].result = (IF box.responses[h.event_id].decision = "allow"
                                          THEN "allow" ELSE "deny")
                    /\ ipc'[h.dir].responses[h.event_id] = NoResponse
              /\ \A s \in Sessions, e \in PendingIds :
                    (~ipc[s].responses[e].present /\ ipc'[s].responses[e].present)
                    => (hook' = hook /\ bd.running /\ bd' # bd)]_vars

\* C14 witness: a permission call has returned the denial the operator tapped
\* and its response file is gone
C14_Witness ==
    \E p \in Procs :
       /\ hook[p].pc = "done" /\ hook[p].result = "deny"
       /\ hook[p].reason = <<"Denied via Telegram">>
       /\ ipc[hook[p].dir].exists
       /\ ~ipc[hook[p].dir].responses[hook[p].event_id].present

\* C15: in both poll loops a pass made with the kill marker or the force
\* marker in the mailbox ends the call on that pass, on the marker and not on
\* the response file or the deadline.
C15_MarkersEndEveryPoll ==
    [][\A p \in Procs :
          (/\ hook[p].pc \in {"poll_response", "poll_response_or_kill"}
           /\ ~hook[p].asleep
           /\ ipc[hook[p].dir].kill # "" \/ ipc[hook[p].dir].force_clear
           /\ hook'[p] # hook[p] /\ now' = now)
          => /\ hook'[p].pc = "done"
             /\ hook'[p].reason # <<"Telegram approval timed out">>]_vars

\* the sessions whose topic is the thread a message was written in
ThreadOwners(th) == {s \in Sessions : bd.session_threads[s] # 0 /\ bd.session_threads[s] = th}

\* the active sessions as the daemon reads them from the registry
ActiveNow == get_active_sessions(bridge_load_state(state_json))

\* the reply text reached session s's mailbox, as a response or in the queue
\* file, and no other session's mailbox was touched (w is the world after the
\* reply was handled)
RoutedTo(w, s, text) ==
    /\ \A o \in Sessions \ {s} : w.ipc[o] = ipc[o]
    /\ ipc[s].exists =>
          /\ Words(text) \subseteq w.ipc[s].accepted
          /\ \/ w.ipc[s].queued.present /\ w.ipc[s].queued # ipc[s].queued
             \/ \E i \in PendingIds : w.ipc[s].responses[i] # ipc[s].responses[i]

\* C16: whenever the daemon handles a reply, it goes to the session whose
\* topic is the reply's thread; with no such session, to the only active
\* session; and with no such session and none or several active sessions it
\* is dropped and no mailbox changes. A reply is never accepted for a session
\* that has no topic and is not the sole active session.
C16_ReplyRouting ==
    /\ [](bd.running =>
            \A th \in Threads, text \in Replies :
               LET w == handle_message(World, text, th, "ok", now)
               IN  IF ThreadOwners(th) # {}
                   THEN \E s \in ThreadOwners(th) : RoutedTo(w, s, text)
                   ELSE IF Len(ActiveNow) = 1
                   THEN RoutedTo(w, ActiveNow[1][1], text)
                   ELSE w.ipc = ipc)
    /\ [][\A s \in Sessions :
             ~(ipc'[s].accepted \subseteq ipc[s].accepted)
             => \/ bd.session_threads[s] # 0
                \/ Len(ActiveNow) = 1 /\ ActiveNow[1][1] = s]_vars

\* C16 witness: with s1 and s2 both active in their topics, two replies were
\* handled: one reached s2 through its topic, the other reached nobody
C16_Witness ==
    /\ Len(ActiveNow) = 2
    /\ ThreadOwners(1) # {} /\ ThreadOwners(2) # {}
    /\ used.updates = 2
    /\ ipc["s2"].queued.present /\ ipc["s2"].queued.instruction = <<"A">>
    /\ ipc["s2"].accepted = {"A"}
    /\ ipc["s1"].exists /\ ~ipc["s1"].queued.present /\ ipc["s1"].accepted = {}

\* C17: whenever the daemon handles a reply for a session that has a stop
\* waiting, the step itself writes the stripped reply text as the instruction
\* of the response for that stop's event id, drops the pending stop and leaves
\* the queue file as it was; and no step puts anything into the queue file of
\* a session whose stop is waiting.
C17_ReplyAnswersPendingStop ==
    /\ [](bd.running =>
            \A th \in Threads, text \in Replies :
               LET s == resolve_target(World, th)
                   w == handle_message(World, text, th, "ok", now)
               IN  (s # "" /\ PendingStop(bd, s) # 0 /\ ipc[s].exists)
                   => LET r == w.ipc[s].responses[PendingStop(bd, s)]
                      IN  /\ r.present /\ r.has_instruction
                          /\ r.instruction = Strip(text)
                          /\ w.ipc[s].queued = ipc[s].queued
                          /\ ~w.bd.pending_events[PendingStop(bd, s)].present)
    /\ [][\A s \in Sessions :
             (ipc'[s].queued.present /\ ipc'[s].queued # ipc[s].queued)
             => PendingStop(bd, s) = 0]_vars

\* C17 witness: a stop call of s1 waits, nothing was ever queued, and the
\* response for its event id holds the operator's reply "B"
C17_Witness ==
    /\ hook["h1"].pc = "poll_response_or_kill"
    /\ hook["h1"].event_id # 0
    /\ ipc["s1"].responses[hook["h1"].event_id].present
    /\ ipc["s1"].responses[hook["h1"].event_id].instruction = <<"B">>
    /\ ipc["s1"].queued.qlog = <<>>
    /\ PendingStop(bd, "s1") = 0

\* C18: the step in which the daemon reads a stop event either answers it
\* from the queue (response written, queue file gone, nothing pending) or
\* leaves a pending interaction of kind stop for its event id.
C18_StopEventAnsweredOrPending ==
    [][\A s \in Sessions : \A i \in 1..Len(ipc[s].events) :
          (/\ bd.running /\ bd'.running
           /\ bd.event_positions[s] < i /\ i <= bd'.event_positions[s]
           /\ ipc[s].events[i].type = "stop")
          => LET e == ipc[s].events[i].id
             IN  \/ /\ ipc'[s].responses[e].present
                    /\ ~ipc'[s].queued.present
                    /\ ~bd'.pending_events[e].present
                 \/ /\ bd'.pending_events[e].present
                    /\ bd'.pending_events[e].type = "stop"]_vars

\* C19: the flush that removes a session's batch accounts for every member:
\* after the step each member has a response in the mailbox, or is the event
\* of a single-permission pending interaction, or is listed by a batch
\* pending interaction of the session.
C19_FlushAccountsForEveryMember ==
    [][\A s \in Sessions :
          (/\ bd.running /\ bd.pc = "scan" /\ bd'.pc = "poll"
           /\ bd.permission_batch[s].present /\ ~bd'.permission_batch[s].present
           /\ ipc'[s].exists)
          => \A k \in 1..Len(bd.permission_batch[s].events) :
                LET e == bd.permission_batch[s].events[k].id
                IN  \/ ipc'[s].responses[e].present
                    \/ /\ bd'.pending_events[e].present
                       /\ bd'.pending_events[e].type = "permission_request"
                    \/ \E i \in PendingIds :
                          /\ bd'.pending_events[i].present
                          /\ bd'.pending_events[i].type = "permission_batch"
                          /\ bd'.pending_events[i].session_id = s
                          /\ \E j \in 1..Len(bd'.pending_events[i].event_ids) :
                                bd'.pending_events[i].event_ids[j] = e]_vars

\* the step reads line i of session s's event log, a permission request,
\* while the session is trusted and has no open batch
ReadsTrustedRequest(s, i) ==
    /\ bd.running /\ bd'.running
    /\ bd.event_positions[s] < i /\ i <= bd'.event_positions[s]
    /\ IsPermissionRequest(ipc[s].events[i])
    /\ bd.trusted_sessions[s]
    /\ ~bd.permission_batch[s].present

\* C20 as amended: a permission request of a trusted session is batched like
\* any other: the step that reads it puts it into the session's batch, whose
\* window starts then, and writes no response; the allow is written, with no
\* prompt and no pending interaction, by the flush that removes the batch
\* once the window has elapsed.
C20_TrustedRequestAllowedAtFlush ==
    /\ [][\A s \in Sessions : \A i \in 1..Len(ipc[s].events) :
             ReadsTrustedRequest(s, i)
             => /\ bd'.permission_batch[s].present
                /\ bd'.permission_batch[s].timer_start = now
                /\ \E k \in 1..Len(bd'.permission_batch[s].events) :
                      bd'.permission_batch[s].events[k] = ipc[s].events[i]
                /\ ~ipc'[s].responses[ipc[s].events[i].id].present]_vars
    /\ [][\A s \in Sessions :
             (/\ bd.running /\ bd.pc = "scan" /\ bd'.pc = "poll"
              /\ bd.trusted_sessions[s]
              /\ bd.permission_batch[s].present /\ ~bd'.permission_batch[s].present
              /\ ipc'[s].exists)
             => /\ now - bd.permission_batch[s].timer_start >= permission_batch_window_seconds
                /\ \A k \in 1..Len(bd.permission_batch[s].events) :
                      LET e == bd.permission_batch[s].events[k].id
                      IN  /\ ipc'[s].responses[e].present
                          /\ ipc'[s].responses[e].decision = "allow"
                          /\ e \notin tg'.prompted
                          /\ ~bd'.pending_events[e].present]_vars

\* C20 witness: the request of a waiting permission call of a trusted session
\* sits in the session's batch, read by the daemon and not yet answered
C20_Witness ==
    /\ bd.trusted_sessions["s1"]
    /\ hook["h1"].pc = "poll_response" /\ hook["h1"].asleep
    /\ bd.permission_batch["s1"].present
    /\ bd.permission_batch["s1"].events[1].id = hook["h1"].event_id
    /\ ~ipc["s1"].responses[hook["h1"].event_id].present

\* C20 as stated: the step that reads a trusted session's permission request
\* writes its allow response and leaves the request out of any batch.
C20_TrustedRequestAllowedAtOnce ==
    [][\A s \in Sessions : \A i \in 1..Len(ipc[s].events) :
          ReadsTrustedRequest(s, i)
          => /\ ipc'[s].responses[ipc[s].events[i].id].present
             /\ ipc'[s].responses[ipc[s].events[i].id].decision = "allow"
             /\ ~bd'.permission_batch[s].present]_vars

\* C21: a step that rewrites a queue file which already held text keeps that
\* text and appends to it after a blank, whatever is queued: a reply, or the
\* instruction of a clear or compact command.
C21_CommandJoinsQueue ==
    [][\A s \in Sessions :
          (/\ ipc[s].queued.present /\ ipc'[s].queued.present
           /\ ipc'[s].queued # ipc[s].queued)
          => LET old == ipc[s].queued.instruction \o <<" ">>
                 new == ipc'[s].queued.instruction
             IN  Len(new) > Len(old) /\ SubSeq(new, 1, Len(old)) = old]_vars

\* the world after a clear or compact command for session s, typed in thread
\* th or tapped
Typed(command, th) == handle_message(World, <<"/" \o command>>, th, "ok", now)

Tapped(command, s) == handle_callback(World, Button(command, 0, s), "ok", now)

\* C22 as amended: a clear command, typed or tapped, leaves the force marker
\* in the target's mailbox whether it answered a pending stop or was queued;
\* a compact command writes no marker; and the marker is only ever written in
\* a step that also writes the clear instruction to the queue file or to a
\* response.
C22_OnlyClearWritesForceMarker ==
    /\ [](bd.running =>
            /\ \A th \in 0..1 :
                  LET s == resolve_target(World, th)
                  IN  (s # "" /\ ipc[s].exists)
                      => /\ Typed("clear", th).ipc[s].force_clear
                         /\ Typed("compact", th).ipc[s].force_clear = ipc[s].force_clear
            /\ \A s \in Sessions :
                  ipc[s].exists
                  => /\ Tapped("clear", s).ipc[s].force_clear
                     /\ Tapped("compact", s).ipc[s].force_clear = ipc[s].force_clear)
    /\ [][\A s \in Sessions :
             (~ipc[s].force_clear /\ ipc'[s].force_clear)
             => \/ /\ ipc'[s].queued.present
                   /\ ipc'[s].queued.instruction = CLEAR_INSTRUCTION
                \/ \E e \in Ids :
                      /\ ipc'[s].responses[e] # ipc[s].responses[e]
                      /\ ipc'[s].responses[e].instruction = CLEAR_INSTRUCTION]_vars

\* C22 witness: the one command handled so far was a compact, queued while the
\* agent was busy, and the mailbox holds no force marker
C22_Witness ==
    /\ used.updates = 1
    /\ ipc["s1"].queued.present
    /\ ipc["s1"].queued.instruction = COMPACT_INSTRUCTION
    /\ ~ipc["s1"].force_clear

\* C22 as stated: a compact command, typed or tapped, also leaves a force
\* marker in the target's mailbox.
C22_CompactWritesForceMarker ==
    bd.running =>
       /\ \A th \in 0..1 :
             LET s == resolve_target(World, th)
             IN  (s # "" /\ ipc[s].exists) => Typed("compact", th).ipc[s].force_clear
       /\ \A s \in Sessions :
             ipc[s].exists => Tapped("compact", s).ipc[s].force_clear

\* the thread of session s is bound in the daemon and missing on the platform
ThreadMissing(s) ==
    /\ bd.session_threads[s] # 0
    /\ bd.session_threads[s] \notin tg.topics

\* the step sends to session s's thread: the prompt of a stop event read, the
\* prompt of a permission batch flushed, or the warning about a stale pending
\* interaction
SendsToThread(s) ==
    /\ bd.running /\ bd.pc = "scan" /\ bd'.pc = "poll"
    /\ \/ \E i \in 1..Len(ipc[s].events) :
             /\ bd.event_positions[s] < i /\ i <= bd'.event_positions[s]
             /\ ipc[s].events[i].type = "stop"
       \/ bd.permission_batch[s].present /\ ~bd'.permission_batch[s].present
       \/ \E i \in PendingIds :
             /\ bd.pending_events[i].present /\ bd.pending_events[i].session_id = s
             /\ i \notin bd.stale_warned /\ i \in bd'.stale_warned

\* C23: a step in which the daemon sends to the thread of a session whose
\* topic is missing on the platform leaves the kill marker in the session's
\* mailbox, removes the thread binding and drops the registry slot.
C23_MissingThreadReaps ==
    [][\A s \in Sessions :
          (SendsToThread(s) /\ ThreadMissing(s) /\ ipc[s].exists)
          => /\ ipc'[s].kill # ""
             /\ bd'.session_threads[s] = 0
             /\ IndexOfSession(bridge_load_state(state_json').slots, s) = 0]_vars

\* C24: no step of the daemon's scan, stale check and flush ends the daemon,
\* whatever lines the event logs hold.
C24_MalformedNeverFatal ==
    [][(bd.running /\ bd.pc \in {"top", "scan"} /\ bd' # bd) => bd'.running]_vars

\* the daemon's memory holds nothing of session s but, possibly, its
\* event-log offset
ForgottenButOffset(d, s) ==
    /\ d.session_threads[s] = 0
    /\ \A i \in PendingIds : ~(d.pending_events[i].present /\ d.pending_events[i].session_id = s)
    /\ ~d.permission_batch[s].present
    /\ ~d.trusted_sessions[s]
    /\ d.approval_counts[s] = 0

\* C25: the step in which the daemon processes a session's deactivation event
\* and writes the processed marker leaves nothing of the session in the
\* daemon's memory: no thread binding, pending interaction, open batch, trust
\* flag, approval count or event-log offset.
C25_DeactivationForgetsSession ==
    [][\A s \in Sessions :
          (bd.running /\ bd'.running /\ ~ipc[s].processed /\ ipc'[s].processed)
          => ForgottenButOffset(bd', s) /\ bd'.event_positions[s] = 0]_vars

\* C26: once a mailbox has a bound session id, no step changes it while the
\* mailbox exists.
C26_BindingNeverChanges ==
    [][\A d \in Sessions :
          (ipc[d].exists /\ ipc[d].bound # "" /\ ipc'[d].exists)
          => ipc'[d].bound = ipc[d].bound]_vars

\* the slots of a registry that have the project and the default topic label
\* of an activation for the project and are held by another session
Superseded(st, session_id, project) ==
    {i \in 1..Len(st.slots) :
        /\ st.slots[i].session_id # session_id
        /\ st.slots[i].project = ProjectOf(project)
        /\ st.slots[i].topic_name = TopicName("", st.slots[i].slot, project)}

\* C27: whenever the lock is free, the activation of a session id that is not
\* in the registry, for the project and topic label of an existing slot,
\* claims a slot: the state it saves holds the new session within max_slots
\* slots and no longer the older session, whose mailbox is gone, whether the
\* older slot was live or stale.
C27_DuplicateSupersedes ==
    ~lock.held =>
       \A a \in Activations :
          LET st0 == hook_load_state(state_json)
              r == do_activate(st0, ipc, bd, now, a[1], a[2], "")
          IN  (IndexOfSession(st0.slots, a[1]) = 0 /\ Superseded(st0, a[1], a[2]) # {})
              => /\ r.outcome = "claimed"
                 /\ IndexOfSession(r.st.slots, a[1]) # 0
                 /\ Len(r.st.slots) <= max_slots
                 /\ \A i \in Superseded(st0, a[1], a[2]) :
                       /\ st0.slots[i].session_id \notin SessionIds(r.st.slots)
                       /\ ~r.ipc[st0.slots[i].session_id].exists

\* C27 witness: s3 has been activated for project p1 while live session s1
\* held a slot for p1: s3 has the slot and s1's slot and mailbox are gone
C27_Witness ==
    /\ lock.held /\ lock.op = "activate" /\ lock.outcome = "claimed"
    /\ lock.session_id = "s3"
    /\ \E i \in 1..Len(Registry) :
          Registry[i].session_id = "s1" /\ Registry[i].project = "p1"
    /\ \E j \in 1..Len(lock.st.slots) :
          lock.st.slots[j].session_id = "s3" /\ lock.st.slots[j].project = "p1"
    /\ "s1" \notin SessionIds(lock.st.slots)
    /\ ~ipc["s1"].exists /\ ipc["s3"].exists
    /\ bd.running

\* the event log of mailbox d holds the permission request with this id
LoggedRequest(d, id) ==
    \E i \in 1..Len(ipc[d].events) :
       ipc[d].events[i].id = id /\ IsPermissionRequest(ipc[d].events[i])

IntervalElapsed(p) ==
    /\ hook[p].pc = "poll_response_or_kill" /\ ~hook[p].asleep
    /\ now >= hook[p].deadline
    /\ hook'[p] # hook[p]

ReadsKeepAlive(s) ==
    /\ bd.running /\ bd'.pc = "poll"
    /\ \E i \in 1..Len(ipc[s].events) :
          /\ bd.event_positions[s] < i /\ i <= bd'.event_positions[s]
          /\ ipc[s].events[i].type = "keep_alive"

\* the session's threshold clock runs and has run for more than the threshold
IdleThresholdExceeded(s) ==
    /\ bd.last_idle_ping[s] # 0
    /\ now - bd.last_idle_ping[s] > idle_ping_seconds

\* C30: on a keep_alive event of a session whose threshold clock runs, if more
\* than idle_ping_seconds have passed since the clock was set the daemon sends
\* one idle notice with _send_to_session (delivered once, or the session
\* reaped when its thread is missing) and sets the clock to the present time
\* and changes nothing else; otherwise it sends nothing and changes no state.
\* In a run, an idle notice is delivered only in a step that reads a
\* keep_alive event with the threshold exceeded, once, and the clock is reset.
C30_IdleNoticeAfterThreshold ==
    /\ [](bd.running =>
            \A s \in Sessions :
                bd.last_idle_ping[s] # 0 =>
                    LET w == process_keep_alive(World, s, "ok", now)
                        reset == [World EXCEPT !.bd.last_idle_ping[s] = now]
                    IN  IF IdleThresholdExceeded(s)
                        THEN IF ThreadMissing(s)
                             THEN w = [kill_session(World, s, "topic deleted by user")
                                          EXCEPT !.bd.last_idle_ping[s] = now]
                             ELSE w = [reset EXCEPT !.tg.idle_notices[s] = @ + 1]
                        ELSE w = World)
    /\ [][\A s \in Sessions :
             tg'.idle_notices[s] # tg.idle_notices[s] =>
                 /\ tg'.idle_notices[s] = tg.idle_notices[s] + 1
                 /\ ReadsKeepAlive(s)
                 /\ IdleThresholdExceeded(s)
                 /\ bd'.last_idle_ping[s] = now]_vars

\* the daemon has read the keep_alive event of a waiting stop call more than
\* idle_ping_seconds after the activation, delivered one idle notice and
\* reset the clock; the call still waits
C30_Witness ==
    /\ bd.running
    /\ tg.idle_notices["s1"] = 1
    /\ bd.last_idle_ping["s1"] > 1
    /\ now - bd.last_idle_ping["s1"] <= idle_ping_seconds
    /\ \E i \in 1..Len(ipc["s1"].events) :
          /\ i <= bd.event_positions["s1"]
          /\ ipc["s1"].events[i].type = "keep_alive"
    /\ StopBlocked("h1")

\* ---------------------------------------------------------------------- C31
\* the permission request of a call is covered by the allow-list: its tool is
\* listed and no patterns are configured, or its input carries no path, or
\* the path (the first of file_path, path, notebook_path that is there)
\* matches a configured pattern
AllowListed(h) ==
    /\ h.tool_name \in auto_approve_tools
    /\ \/ h.auto_paths = <<>>
       \/ h.tool_input = NoToolInput
       \/ \E k \in 1..Len(h.auto_paths) :
             \/ h.tool_input.file_path # <<>> /\ fnmatch(h.tool_input.file_path, h.auto_paths[k])
             \/ /\ h.tool_input.file_path = <<>> /\ h.tool_input.path # <<>>
                /\ fnmatch(h.tool_input.path, h.auto_paths[k])
             \/ /\ h.tool_input.file_path = <<>> /\ h.tool_input.path = <<>>
                /\ fnmatch(h.tool_input.notebook_path, h.auto_paths[k])

\* C31: a permission request that reaches a mailbox returns allow at once,
\* with nothing written to the mailbox and no wait, exactly when its tool is
\* in the allow-list and no path patterns are configured, the tool input has
\* no path, or the path matches a pattern; every other request is appended
\* to the event log and the call waits for the operator's answer.
C31_AllowListShortCircuit ==
    [][\A p \in Procs :
         (/\ hook[p].pc \in {"idle", "done"} /\ hook'[p] # hook[p]
          /\ hook'[p].hook_event = "PermissionRequest" /\ hook'[p].dir # "")
         => LET h == hook'[p]
                log == ipc[h.dir].events
            IN  IF AllowListed(h)
                THEN /\ h.pc = "done" /\ h.result = "allow" /\ h.event_id = 0
                     /\ ipc' = ipc
                ELSE /\ h.pc = "poll_response" /\ h.event_id = next_id
                     /\ Len(ipc'[h.dir].events) = Len(log) + 1
                     /\ ipc'[h.dir].events[Len(log) + 1].type = "permission_request"
                     /\ ipc'[h.dir].events[Len(log) + 1].id = next_id]_vars

\* a listed tool whose path under the path key (file_path is absent) matches
\* the configured pattern has been allowed with nothing in the event log but
\* the activation
C31_Witness ==
    /\ hook["h1"].pc = "done" /\ hook["h1"].result = "allow" /\ hook["h1"].event_id = 0
    /\ hook["h1"].tool_name \in auto_approve_tools
    /\ hook["h1"].tool_input = [NoToolInput EXCEPT !.path = <<"a">>]
    /\ hook["h1"].auto_paths = << <<"a", "*">> >>
    /\ Len(ipc["s1"].events) = 1

\* ---------------------------------------------------------------------- C32
\* C32: while state.json is missing or cannot be parsed, the adapter's and the
\* daemon's load_state both return the registry with no slots and no daemon,
\* and the command that reads it does not fail; the write that creates the
\* file again leaves a registry with a daemon pid and heartbeat entry and with
\* slots numbered 1..max_slots, each number and each session_id used once.
C32_MissingRegistryReadsEmpty ==
    /\ [](~state_json.exists =>
            /\ hook_load_state(state_json).slots = <<>>
            /\ hook_load_state(state_json).daemon_pid = 0
            /\ bridge_load_state(state_json).slots = <<>>
            /\ bridge_load_state(state_json).daemon_pid = 0)
    /\ [][(~state_json.exists /\ ~lock.held /\ lock'.held) => lock'.outcome # "error"]_vars
    /\ [][(~state_json.exists /\ state_json'.exists) =>
            LET slots == state_json'.slots
            IN  /\ state_json'.daemon_pid \in {0, DaemonPid}
                /\ state_json'.daemon_heartbeat \in {-1} \cup (0..now)
                /\ \A i \in 1..Len(slots) : slots[i].slot \in 1..max_slots
                /\ \A i, j \in 1..Len(slots) :
                      i # j => /\ slots[i].slot # slots[j].slot
                               /\ slots[i].session_id # slots[j].session_id]_vars

\* the daemon started by the first activation has read the missing state.json
\* as the empty registry and its heartbeat has written the file: no slots, no
\* daemon pid, the heartbeat, while the activation still holds the lock
C32_Witness ==
    /\ state_json.exists
    /\ state_json.slots = <<>> /\ state_json.daemon_pid = 0
    /\ state_json.daemon_heartbeat >= 0
    /\ lock.held /\ lock.op = "activate"

\* ---------------------------------------------------------------------- C33
\* C33: a permission call that waits for the operator returns allow only on
\* reading the response file of its own event id with the decision allow;
\* no other file of the mailbox, a force marker included, makes it allow.
C33_AllowOnlyFromOwnResponse ==
    [][\A p \in Procs :
         (/\ hook[p].pc = "poll_response" /\ hook'[p].pc = "done"
          /\ hook'[p].result = "allow")
         => /\ ipc[hook[p].dir].responses[hook[p].event_id].present
            /\ ipc[hook[p].dir].responses[hook[p].event_id].decision = "allow"]_vars

\* ---------------------------------------------------------------------- C34
\* the pending entries an interaction id is waiting under: its own, or that
\* of a batch it is a member of
PendingFor(d, i) ==
    {b \in PendingIds :
        /\ d.pending_events[b].present
        /\ b = i \/ \E k \in 1..Len(d.pending_events[b].event_ids) :
                        d.pending_events[b].event_ids[k] = i}

\* C34: the daemon step that writes the response of an interaction leaves no
\* pending entry for it, whichever way it was resolved (approve, deny,
\* approve all, deny all, a reply to a stop, clear or compact); and a tap or
\* a message that removes no pending entry, a repeated one included, writes no
\* response file and adds nothing to an approval count.
C34_ResolvedIsRemoved ==
    /\ [][\A s \in Sessions, i \in 1..MaxIds :
             (/\ ipc'[s].exists
              /\ ipc'[s].responses[i].present
              /\ ipc'[s].responses[i] # ipc[s].responses[i])
             => PendingFor(bd', i) = {}]_vars
    /\ [][(/\ used'.updates = used.updates + 1
           /\ \A b \in PendingIds :
                 bd.pending_events[b].present => bd'.pending_events[b].present)
          => /\ \A s \in Sessions : ipc'[s].responses = ipc[s].responses
             /\ \A s \in Sessions :
                   bd'.approval_counts[s] <= bd.approval_counts[s]]_vars

\* the first permission request has been approved with its button, which can
\* still be tapped: its response is written, its pending entry is gone and
\* one approval is counted, after three updates from the operator
C34_Witness ==
    /\ ipc["s1"].responses[1].present /\ ipc["s1"].responses[1].decision = "allow"
    /\ PendingFor(bd, 1) = {}
    /\ Button("allow", 1, "s1") \in tg.buttons
    /\ bd.approval_counts["s1"] = 1
    /\ used.updates = ResolveUpdates

\* ---------------------------------------------------------------------- C35
\* C35: for the whole life of a daemon the offset it keeps for a session
\* never decreases and never exceeds the length of the session's event log,
\* also when the session is deactivated and activated again.
C35_OffsetWithinLog ==
    /\ [](bd.running =>
            \A s \in Sessions :
                ipc[s].exists => bd.event_positions[s] <= Len(ipc[s].events))
    /\ [][(bd.running /\ bd'.running) =>
            \A s \in Sessions : bd'.event_positions[s] >= bd.event_positions[s]]_vars

\* ---------------------------------------------------------------------- C36
\* C36: a session whose only activation event has been handled (the topic
\* created for it is recorded in its registry slot) gets no second topic,
\* also when the daemon that handled the event has died and another one runs.
C36_NoReplayAfterRestart ==
    [][\A s \in Sessions :
         LET st == bridge_load_state(state_json)
             i == IndexOfSession(st.slots, s)
         IN  (/\ i # 0 /\ st.slots[i].thread_id # 0
              /\ ipc[s].exists
              /\ Len(SelectSeq(ipc[s].events, LAMBDA e : e.type = "activation")) = 1)
             => ~(/\ tg'.next_thread > tg.next_thread
                  /\ bd'.session_threads[s] = tg.next_thread)]_vars

\* ---------------------------------------------------------------------- C37
\* C37: once a session has used its mailbox by direct match (a call of its own
\* has completed there) and nobody is bound to that mailbox, a call that
\* carries another session_id, one with no mailbox of its own, passes
\* through: it takes no mailbox, binds nothing and appends nothing.
C37_StrangerNotAttached ==
    [][\A p, q \in Procs :
         (/\ q # p
          /\ hook[q].pc = "done" /\ hook[q].dir # "" /\ hook[q].dir = hook[q].session_id
          /\ ipc[hook[q].dir].exists /\ ipc[hook[q].dir].bound = ""
          /\ hook[p].pc \in {"idle", "done"} /\ hook'[p] # hook[p]
          /\ hook'[p].session_id \in Sessions \ {hook[q].dir}
          /\ ~ipc[hook'[p].session_id].exists)
         => /\ hook'[p].pc = "done" /\ hook'[p].dir = ""
            /\ ipc' = ipc]_vars

\* ---------------------------------------------------------------------- C38
\* C38: a deactivation called for a session_id that no slot carries picks no
\* other session: no mailbox is written to and the session it goes on to
\* remove is none but the one it was called for.
C38_DeactivateOnlyOwnSlot ==
    [][\A s \in Sessions :
         (/\ IndexOfSession(hook_load_state(state_json).slots, s) = 0
          /\ DeactivateBegin(s))
         => /\ ipc' = ipc
            /\ lock'.session_id = s]_vars

\* ---------------------------------------------------------------------- C39
\* C39: the daemon does not shut itself down (the end of a pass of its loop,
\* nobody else writing) while a session that an activation has claimed, and
\* nobody has killed, still waits for its activation event to be read.
C39_DaemonExitsOnlyWhenIdle ==
    [][(/\ bd.running /\ ~bd'.running
        /\ UNCHANGED <<state_json, ipc, lock, tg>>)
       => \A s \in Sessions :
             ~(/\ ipc[s].exists /\ ipc[s].meta /\ ipc[s].kill = ""
               /\ bd.event_positions[s] = 0
               /\ Len(ipc[s].events) > 0)]_vars

\* ---------------------------------------------------------------------- C40
\* C40: a deactivation appends its event to the mailbox of a session whose
\* slot is in state.json, and is still there after the append; and a
\* deactivation that has appended its event removes the slot and the mailbox
\* only once the daemon's processed marker is in the mailbox or its wait has
\* run out.
C40_DeactivateWaitsForDaemon ==
    /\ [][\A s \in Sessions :
             (/\ ipc[s].exists /\ ipc'[s].exists
              /\ Len(ipc'[s].events) = Len(ipc[s].events) + 1
              /\ ipc'[s].events[Len(ipc'[s].events)].type = "deactivation")
             => /\ IndexOfSession(hook_load_state(state_json).slots, s) # 0
                /\ IndexOfSession(hook_load_state(state_json').slots, s) # 0]_vars
    /\ [][(/\ lock.held /\ lock.op = "deactivate" /\ lock.had_dir
           /\ ~lock'.held)
          => \/ ipc[lock.session_id].processed
             \/ now >= lock.deadline]_vars

\* a deactivation of s1 waits, its deadline not reached, and the daemon has
\* read the event and written the processed marker: the slot is still in the
\* registry and the mailbox is still there
C40_Witness ==
    /\ lock.held /\ lock.op = "deactivate" /\ lock.had_dir /\ lock.session_id = "s1"
    /\ now < lock.deadline
    /\ ipc["s1"].exists /\ ipc["s1"].processed
    /\ IndexOfSession(hook_load_state(state_json).slots, "s1") # 0
====
